---- MODULE Spec2Model ----
(***************************************************************************)
(* A model of argocd-config-check (src/main.go, src/utils.go):             *)
(*   - acquireInstallConfigurationData, the resolver of the operator's     *)
(*     installation facts, as the sequence of its steps;                   *)
(*   - runChecks, the run that reports the resolver's entries, lists the   *)
(*     ArgoCD objects and evaluates them one at a time;                    *)
(*   - checkIndividualArgoCDCR and its seven rule functions;               *)
(*   - the resolver run twice on the same answers of the data source,      *)
(*     with incomplete and with complete data;                             *)
(*   - the matching of command arguments of src/utils.go.                  *)
(*                                                                         *)
(* An optional value (a Go pointer, a nil map or slice) is the empty        *)
(* sequence when unset and a one-element sequence when set.                *)
(***************************************************************************)
EXTENDS Integers, Sequences, FiniteSets, TLC

VARIABLES
    pc,                   \* the place runChecks / the resolver has reached
    incomplete,           \* k8sClient.IncompleteControlPlaneData()
    calls,                \* the data-source calls issued so far, in order
    subscriptionList,     \* the items of the listed SubscriptionList
    gitopsSubscription,   \* the selected Subscription, None until found
    csv,                  \* the ClusterServiceVersion retrieved, None until got
    resClusterInformation,\* the clusterInformation under construction / returned
    resEntries,           \* the entry log under construction / returned
    output,               \* what runChecks printed: the entries and the summary
    argoCDList,           \* the items of the listed ArgoCDList
    idx,                  \* the index of the next ArgoCD to evaluate
    reports,              \* per evaluated ArgoCD: the issues returned and as reported
    argoCD,               \* rule engine: the object under evaluation
    issuesA,              \* rule engine: the issue list of a first call
    issuesB,              \* rule engine: the issue list of a second call
    cmdArgs,              \* argument matching: the command arguments of a container
    cmdKey,               \* argument matching: the key looked for
    cmdValue,             \* argument matching: the value looked for
    matches,              \* argument matching: what the two functions returned
    replay                \* two runs on the same answers: the answers of the data
                          \* source and the outcome of the first run; None in a run
                          \* of its own

vars == <<pc, incomplete, calls, subscriptionList, gitopsSubscription, csv,
          resClusterInformation, resEntries, output, argoCDList, idx, reports,
          argoCD, issuesA, issuesB, cmdArgs, cmdKey, cmdValue, matches, replay>>

runVars == <<incomplete, calls, subscriptionList, gitopsSubscription, csv,
             resClusterInformation, resEntries, output, argoCDList, idx, reports, replay>>

ruleVars == <<argoCD, issuesA, issuesB>>

argVars == <<cmdArgs, cmdKey, cmdValue, matches>>

(***************************************************************************)
(* Bounds of the model.                                                    *)
(***************************************************************************)
MaxSubscriptions == 2
MaxEnv == 2
MaxArgoCDs == 2
MaxNamespaces == 2
MaxDeviations == 2
MaxArgs == 2

None == <<>>
Some(v) == <<v>>

\* No argument list is being matched.
NoArguments == cmdArgs = <<>> /\ cmdKey = "" /\ cmdValue = "" /\ matches = None

\* The answers of the data source to a call: an error, or the value asked for.
Failure == [err |-> TRUE]
Answer(v) == [err |-> FALSE, value |-> v]
Answers(values) == {Failure} \cup { Answer(v) : v \in values }

\* The second of two runs on the same answers is under way.
SecondRun == replay # None /\ replay[1].first # None

\* What the data source can answer with at this step: any of the answers, and in
\* the second of two runs the answer it gave at this step of the first run.
Drawn(answers) ==
    IF SecondRun THEN {replay[1].answers[replay[1].at]} ELSE answers

\* The answer is given: the first of two runs keeps it, the second moves on to
\* the next answer kept.
Given(answer) ==
    IF replay = None THEN None
    ELSE IF replay[1].first = None
         THEN Some([replay[1] EXCEPT !.answers = Append(@, answer)])
         ELSE Some([replay[1] EXCEPT !.at = @ + 1])

\* The sequences over S of length at most n.
SeqUpTo(S, n) == UNION { [1..k -> S] : k \in 0..n }

(***************************************************************************)
(* Severities and entries.                                                 *)
(***************************************************************************)
LogLevel_Fatal == "Fatal"
LogLevel_Error == "Error"
LogLevel_Warn == "Warn"

entry(level, message) == [level |-> level, message |-> message]

\* A variant of entryListContainsFatal that takes an Error entry for a Fatal one.
entryListContainsFatalOrError(entries) ==
    \E i \in 1..Len(entries) : entries[i].level \in {LogLevel_Fatal, LogLevel_Error}

\* A variant of entryListContainsFatal that looks at the first entry only.
entryListContainsFatalFirstOnly(entries) ==
    Len(entries) > 0 /\ entries[1].level = LogLevel_Fatal

\* src/main.go:126: whether one of the entries is a Fatal one.
entryListContainsFatal(entries) ==
    \E i \in 1..Len(entries) : entries[i].level = LogLevel_Fatal

(***************************************************************************)
(* The data the data source can answer with.                               *)
(***************************************************************************)
GitopsPackage == "openshift-gitops-operator"
DefaultOperatorNS == "openshift-gitops-operator"
ClusterConfigNamespacesKey == "ARGOCD_CLUSTER_CONFIG_NAMESPACES"
DefaultClusterScopedNamespace == "openshift-gitops"

OperatorNamespaces == {DefaultOperatorNS, "custom-operators"}

\* A listed Subscription: .Spec is nullable, .Namespace is its scope.
SubscriptionItems ==
    { [spec |-> None, namespace |-> DefaultOperatorNS],
      [spec |-> Some([package |-> "other-operator"]), namespace |-> DefaultOperatorNS] }
    \cup { [spec |-> Some([package |-> GitopsPackage]), namespace |-> n] :
             n \in OperatorNamespaces }

\* .Status.CurrentCSV of the Subscription, and the values of its .Status.InstalledCSV.
CurrentCSV == "openshift-gitops-operator.v1.19.0"
CSVNames == {CurrentCSV, "openshift-gitops-operator.v1.18.1"}

\* Values of the ARGOCD_CLUSTER_CONFIG_NAMESPACES variable.
NamespacesValues == {" x, ,y ", " , "}

EnvVars ==
    { [name |-> ClusterConfigNamespacesKey, value |-> v] : v \in NamespacesValues }
    \cup { [name |-> "DISABLE_DEX", value |-> "true"] }

\* .Spec.Config of the selected Subscription: nil, or a config with its .Env list.
SubscriptionConfigs == {None} \cup { Some([env |-> e]) : e \in SeqUpTo(EnvVars, MaxEnv) }

Versions == {"1.19.0", "1.18.1"}

ClusterServiceVersions ==
    { [phase |-> "Succeeded", reason |-> "InstallSucceeded", version |-> v] : v \in Versions }
    \cup { [phase |-> "Installing", reason |-> "InstallSucceeded", version |-> "1.19.0"],
            [phase |-> "Succeeded", reason |-> "InstallWaiting", version |-> "1.19.0"],
            [phase |-> "succeeded", reason |-> "InstallSucceeded", version |-> "1.19.0"] }

ArgoCDManagedByLabel == "argocd.argoproj.io/managed-by"
ArgoCDManagedByClusterArgoCDLabel == "argocd.argoproj.io/managed-by-cluster-argocd"
ArgoCDApplicationSetManagedByClusterArgoCDLabel == "argocd.argoproj.io/applicationset-managed-by-cluster-argocd"
ArgoCDNotificationsManagedByClusterArgoCDLabel == "argocd.argoproj.io/notifications-managed-by-cluster-argocd"

LabelKeys == {ArgoCDManagedByLabel, ArgoCDManagedByClusterArgoCDLabel,
              ArgoCDApplicationSetManagedByClusterArgoCDLabel,
              ArgoCDNotificationsManagedByClusterArgoCDLabel}

\* The label sets of a namespace: no label, or one of the four label keys, naming
\* the managing namespace.
LabelSets == { <<>> } \cup { [k \in {key} |-> "openshift-gitops"] : key \in LabelKeys }

\* A listed NamespaceList: namespaces team-1, team-2, ..., each with its labels.
NamespaceLists ==
    UNION { { [i \in 1..n |-> [name |-> "team-" \o ToString(i), labels |-> l[i]]] :
                l \in [1..n -> LabelSets] } : n \in 0..MaxNamespaces }

(***************************************************************************)
(* clusterInformation (src/main.go:63) and the calls of the data source.   *)
(***************************************************************************)
clusterInformation ==
    [ operatorVersion |-> None,
      operatorInstallNS |-> "",
      clusterScopedNamespaces |-> <<>>,
      namespaceWithManagedByLabel |-> None,
      namespaceWithManagedByClusterArgoCDLabel |-> None,
      namespaceWithArgoCDApplicationSetManagedByClusterArgoCDLabel |-> None,
      namespaceWithArgoCDNotificationsManagedByClusterArgoCDLabel |-> None ]

ListCall(kind) == [op |-> "ListFromAllNamespaces", kind |-> kind, namespace |-> "", name |-> ""]
GetCall(kind, ns, name) == [op |-> "Get", kind |-> kind, namespace |-> ns, name |-> name]

(***************************************************************************)
(* Strings: the functions of Go's strings package the code calls.          *)
(***************************************************************************)
Char(s, i) == SubSeq(s, i, i)

\* strings.HasPrefix
HasPrefix(s, prefix) ==
    Len(s) >= Len(prefix) /\ SubSeq(s, 1, Len(prefix)) = prefix

\* strings.TrimPrefix
TrimPrefix(s, prefix) ==
    IF HasPrefix(s, prefix) THEN SubSeq(s, Len(prefix) + 1, Len(s)) ELSE s

\* strings.ReplaceAll(s, old, ""), for a one-character old: s without its
\* occurrences of old, computed half by half.
RECURSIVE RemoveAll(_, _)
RemoveAll(s, old) ==
    IF Len(s) = 0 THEN ""
    ELSE IF Len(s) = 1 THEN (IF s = old THEN "" ELSE s)
    ELSE LET h == Len(s) \div 2
         IN  RemoveAll(SubSeq(s, 1, h), old) \o RemoveAll(SubSeq(s, h + 1, Len(s)), old)

\* strings.SplitSeq(s, sep), for a one-character sep: the pieces between the separators.
RECURSIVE SplitSeq(_, _)
SplitSeq(s, sep) ==
    IF \A i \in 1..Len(s) : Char(s, i) # sep
    THEN <<s>>
    ELSE LET k == CHOOSE i \in 1..Len(s) :
                     Char(s, i) = sep /\ \A j \in 1..(i - 1) : Char(s, j) # sep
         IN  <<SubSeq(s, 1, k - 1)>> \o SplitSeq(SubSeq(s, k + 1, Len(s)), sep)

WhiteSpace == {" ", "\t", "\n", "\r"}

\* strings.TrimSpace
RECURSIVE TrimSpace(_)
TrimSpace(s) ==
    IF s = "" THEN s
    ELSE IF Char(s, 1) \in WhiteSpace THEN TrimSpace(Tail(s))
    ELSE IF Char(s, Len(s)) \in WhiteSpace THEN TrimSpace(SubSeq(s, 1, Len(s) - 1))
    ELSE s

\* A variant of appendTrimmed that keeps the pieces that are empty once trimmed.
RECURSIVE appendTrimmedKeepingEmpty(_, _)
appendTrimmedKeepingEmpty(namespaces, pieces) ==
    IF pieces = <<>> THEN namespaces
    ELSE appendTrimmedKeepingEmpty(Append(namespaces, TrimSpace(Head(pieces))), Tail(pieces))

\* The inner loop of src/main.go:253-258: the trimmed, non-empty pieces appended.
RECURSIVE appendTrimmed(_, _)
appendTrimmed(namespaces, pieces) ==
    IF pieces = <<>> THEN namespaces
    ELSE LET trimmed == TrimSpace(Head(pieces))
         IN  appendTrimmed(IF trimmed # "" THEN Append(namespaces, trimmed) ELSE namespaces,
                           Tail(pieces))

\* The loop over .Spec.Config.Env (src/main.go:249-261): the namespaces collected
\* and the number of ARGOCD_CLUSTER_CONFIG_NAMESPACES entries seen.
RECURSIVE parseClusterConfigNamespaces(_, _, _)
parseClusterConfigNamespaces(env, namespaces, count) ==
    IF env = <<>> THEN [namespaces |-> namespaces, count |-> count]
    ELSE IF Head(env).name = ClusterConfigNamespacesKey
         THEN parseClusterConfigNamespaces(Tail(env),
                  appendTrimmed(namespaces, SplitSeq(Head(env).value, ",")), count + 1)
         ELSE parseClusterConfigNamespaces(Tail(env), namespaces, count)

\* The indexes of the listed Subscriptions that pass both filters of the loop.
MatchingSubscriptions(items) ==
    { i \in 1..Len(items) :
        items[i].spec # None /\ items[i].spec[1].package = GitopsPackage }

\* A variant of findGitopsSubscription without the check for a second match: the
\* last matching record is selected.
RECURSIVE findGitopsSubscriptionLastMatch(_, _, _)
findGitopsSubscriptionLastMatch(items, i, found) ==
    IF i > Len(items) THEN [found |-> found, duplicate |-> FALSE]
    ELSE IF items[i].spec = None THEN findGitopsSubscriptionLastMatch(items, i + 1, found)
    ELSE IF items[i].spec[1].package # GitopsPackage
         THEN findGitopsSubscriptionLastMatch(items, i + 1, found)
    ELSE findGitopsSubscriptionLastMatch(items, i + 1, i)

\* The loop that selects the gitops Subscription (src/main.go:166-188): the index
\* selected (0 when none) and whether a second matching record was met.
RECURSIVE findGitopsSubscription(_, _, _)
findGitopsSubscription(items, i, found) ==
    IF i > Len(items) THEN [found |-> found, duplicate |-> FALSE]
    ELSE IF items[i].spec = None THEN findGitopsSubscription(items, i + 1, found)
    ELSE IF items[i].spec[1].package # GitopsPackage THEN findGitopsSubscription(items, i + 1, found)
    ELSE IF found # 0 THEN [found |-> found, duplicate |-> TRUE]
    ELSE findGitopsSubscription(items, i + 1, i)

(***************************************************************************)
(* The state after construction: runChecks has been called with a client.  *)
(***************************************************************************)
InitRun ==
    /\ pc = "listSubscriptions"
    /\ incomplete \in BOOLEAN
    /\ calls = <<>>
    /\ subscriptionList = <<>>
    /\ gitopsSubscription = None
    /\ csv = None
    /\ resClusterInformation = clusterInformation
    /\ resEntries = <<>>
    /\ output = [entries |-> <<>>, summary |-> None]
    /\ argoCDList = <<>>
    /\ idx = 0
    /\ reports = <<>>
    /\ argoCD = None
    /\ issuesA = None
    /\ issuesB = None
    /\ NoArguments
    /\ replay = None

(***************************************************************************)
(* acquireInstallConfigurationData, step by step.                          *)
(***************************************************************************)

\* A variant of subscriptionMissingLevel with the two levels the other way round.
subscriptionMissingLevelSwapped(incompleteData) ==
    IF incompleteData THEN LogLevel_Error ELSE LogLevel_Warn

\* A variant of subscriptionMissingLevel that reports Error whatever the data is.
subscriptionMissingLevelAlwaysError(incompleteData) == LogLevel_Error

\* src/main.go:150-162 and 191-203: the level of the entry for a Subscription
\* that cannot be located, by k8sClient.IncompleteControlPlaneData().
subscriptionMissingLevel(incompleteData) ==
    IF incompleteData THEN LogLevel_Warn ELSE LogLevel_Error

\* A variant of csvMissingLevel with the levels of the Subscription branch.
csvMissingLevelAsSubscription(incompleteData) ==
    IF incompleteData THEN LogLevel_Warn ELSE LogLevel_Error

\* src/main.go:289-293: the level of the entry for a ClusterServiceVersion that
\* cannot be retrieved.
csvMissingLevel(incompleteData) ==
    IF incompleteData THEN LogLevel_Error ELSE LogLevel_Fatal

\* src/main.go:147-164: list the Subscriptions of all namespaces.
ListSubscriptions ==
    /\ pc = "listSubscriptions"
    /\ calls' = Append(calls, ListCall("SubscriptionList"))
    /\ \E answer \in Drawn(Answers(SeqUpTo(SubscriptionItems, MaxSubscriptions))) :
         /\ replay' = Given(answer)
         /\ IF answer.err
            THEN /\ resEntries' = Append(resEntries,
                       entry(subscriptionMissingLevel(incomplete),
                             "Unable to locate operator install Subscription"))
                 /\ pc' = "returned"
                 /\ UNCHANGED subscriptionList
            ELSE /\ subscriptionList' = answer.value
                 /\ pc' = "findSubscription"
                 /\ UNCHANGED resEntries
    /\ UNCHANGED <<incomplete, gitopsSubscription, csv, resClusterInformation, output,
                   argoCDList, idx, reports>>
    /\ UNCHANGED <<ruleVars, argVars>>

\* src/main.go:166-213: select the unique gitops Subscription, record its namespace.
\* The status and the config of the selected record are the fields the later
\* steps read.
FindSubscription ==
    /\ pc = "findSubscription"
    /\ LET r == findGitopsSubscription(subscriptionList, 1, 0)
       IN  IF r.duplicate
           THEN /\ resEntries' = Append(resEntries,
                      entry(LogLevel_Fatal, "unexpected number of gitops subscriptions found"))
                /\ pc' = "returned"
                /\ UNCHANGED <<gitopsSubscription, resClusterInformation, replay>>
           ELSE IF r.found = 0
           THEN /\ resEntries' = Append(resEntries,
                      entry(subscriptionMissingLevel(incomplete),
                            "Subscription could not be located"))
                /\ pc' = "returned"
                /\ UNCHANGED <<gitopsSubscription, resClusterInformation, replay>>
           ELSE \E found \in Drawn([installedCSV : CSVNames, config : SubscriptionConfigs]) :
                /\ replay' = Given(found)
                /\ gitopsSubscription' =
                      Some([namespace |-> subscriptionList[r.found].namespace,
                            package |-> subscriptionList[r.found].spec[1].package,
                            currentCSV |-> CurrentCSV,
                            installedCSV |-> found.installedCSV,
                            config |-> found.config])
                /\ resClusterInformation' =
                      [resClusterInformation EXCEPT
                         !.operatorInstallNS = subscriptionList[r.found].namespace]
                /\ resEntries' =
                      IF subscriptionList[r.found].namespace # DefaultOperatorNS
                      THEN Append(resEntries,
                             entry(LogLevel_Warn, "operator was installed into an unexpected namespace"))
                      ELSE resEntries
                /\ pc' = "checkCSV"
    /\ UNCHANGED <<incomplete, calls, subscriptionList, csv, output, argoCDList, idx, reports>>
    /\ UNCHANGED <<ruleVars, argVars>>

\* A variant of installationInProgress that takes every installation for settled.
installationInProgressNever(subscription) == FALSE

\* The condition of src/main.go:233: the Subscription's .Status.CurrentCSV is not
\* its .Status.InstalledCSV.
installationInProgress(subscription) == subscription.installedCSV # subscription.currentCSV

\* A variant of CheckInstalledCSV that adds its entry and goes on to the parsing
\* of the config.
CheckInstalledCSVAndGoOn ==
    /\ pc = "checkCSV"
    /\ resEntries' = IF gitopsSubscription[1].installedCSV # gitopsSubscription[1].currentCSV
                     THEN Append(resEntries, entry(LogLevel_Error, "currentCSV != installedCSV"))
                     ELSE resEntries
    /\ pc' = "parseConfig"
    /\ UNCHANGED <<incomplete, replay, calls, subscriptionList, gitopsSubscription, csv,
                   resClusterInformation, output, argoCDList, idx, reports>>
    /\ UNCHANGED <<ruleVars, argVars>>

\* src/main.go:233-242: the installation must not be in progress.
CheckInstalledCSV ==
    /\ pc = "checkCSV"
    /\ IF installationInProgress(gitopsSubscription[1])
       THEN /\ resEntries' = Append(resEntries,
                  entry(LogLevel_Error, "currentCSV != installedCSV"))
            /\ pc' = "returned"
       ELSE /\ pc' = "parseConfig"
            /\ UNCHANGED resEntries
    /\ UNCHANGED <<incomplete, replay, calls, subscriptionList, gitopsSubscription, csv,
                   resClusterInformation, output, argoCDList, idx, reports>>
    /\ UNCHANGED <<ruleVars, argVars>>

\* src/main.go:244-275: the cluster-scoped namespaces of the Subscription's config.
ParseClusterConfigNamespaces ==
    /\ pc = "parseConfig"
    /\ IF gitopsSubscription[1].config # None
       THEN LET r == parseClusterConfigNamespaces(gitopsSubscription[1].config[1].env,
                        resClusterInformation.clusterScopedNamespaces, 0)
            IN  /\ resClusterInformation' =
                      [resClusterInformation EXCEPT !.clusterScopedNamespaces = r.namespaces]
                /\ IF r.count > 1
                   THEN /\ resEntries' = Append(resEntries,
                              entry(LogLevel_Fatal, "multiple ARGOCD_CLUSTER_CONFIG_NAMESPACES env entries"))
                        /\ pc' = "returned"
                   ELSE /\ pc' = "getCSV"
                        /\ UNCHANGED resEntries
       ELSE /\ resClusterInformation' =
                  [resClusterInformation EXCEPT
                     !.clusterScopedNamespaces = <<DefaultClusterScopedNamespace>>]
            /\ pc' = "getCSV"
            /\ UNCHANGED resEntries
    /\ UNCHANGED <<incomplete, replay, calls, subscriptionList, gitopsSubscription, csv,
                   output, argoCDList, idx, reports>>
    /\ UNCHANGED <<ruleVars, argVars>>

\* A variant of unexpectedCSVStatus that accepts every ClusterServiceVersion.
unexpectedCSVStatusNever(got) == FALSE

\* A variant of unexpectedCSVStatus that looks at the phase only.
unexpectedCSVStatusPhaseOnly(got) == got.phase # "Succeeded"

\* The condition of src/main.go:299 on the .Status of the ClusterServiceVersion.
unexpectedCSVStatus(got) == got.phase # "Succeeded" \/ got.reason # "InstallSucceeded"

\* src/main.go:277-307: get the ClusterServiceVersion the Subscription points to.
GetClusterServiceVersion ==
    /\ pc = "getCSV"
    /\ calls' = Append(calls, GetCall("ClusterServiceVersion",
                                      gitopsSubscription[1].namespace,
                                      gitopsSubscription[1].installedCSV))
    /\ \E answer \in Drawn(Answers(ClusterServiceVersions)) :
         /\ replay' = Given(answer)
         /\ IF answer.err
            THEN /\ resEntries' = Append(resEntries,
                       entry(csvMissingLevel(incomplete),
                             "ClusterServiceVersion could not be retrieved"))
                 /\ pc' = "returned"
                 /\ UNCHANGED <<csv, resClusterInformation>>
            ELSE /\ csv' = Some(answer.value)
                 /\ IF unexpectedCSVStatus(answer.value)
                    THEN /\ resEntries' = Append(resEntries,
                               entry(LogLevel_Error, "unexpected values found in ClusterServiceVersion"))
                         /\ pc' = "returned"
                         /\ UNCHANGED resClusterInformation
                    ELSE /\ resClusterInformation' =
                               [resClusterInformation EXCEPT
                                  !.operatorVersion = Some(answer.value.version)]
                         /\ pc' = "listNamespaces"
                         /\ UNCHANGED resEntries
    /\ UNCHANGED <<incomplete, subscriptionList, gitopsSubscription, output,
                   argoCDList, idx, reports>>
    /\ UNCHANGED <<ruleVars, argVars>>

\* namespace.Labels[label] recorded into the map `field` of the clusterInformation
\* (src/main.go:323-337).  A Go map that was never made is nil, and an assignment
\* to an entry of a nil map panics.
recordLabel(acc, namespace, label, field) ==
    IF acc.panicked \/ label \notin DOMAIN namespace.labels THEN acc
    ELSE IF acc.info[field] = None THEN [acc EXCEPT !.panicked = TRUE]
    ELSE [acc EXCEPT !.info[field] =
              Some((namespace.name :> namespace.labels[label]) @@ acc.info[field][1])]

\* The loop over namespaceList.Items (src/main.go:321-338).
RECURSIVE recordNamespaces(_, _)
recordNamespaces(items, acc) ==
    IF items = <<>> \/ acc.panicked THEN acc
    ELSE LET n == Head(items)
             a1 == recordLabel(acc, n, ArgoCDManagedByLabel, "namespaceWithManagedByLabel")
             a2 == recordLabel(a1, n, ArgoCDManagedByClusterArgoCDLabel,
                               "namespaceWithManagedByClusterArgoCDLabel")
             a3 == recordLabel(a2, n, ArgoCDApplicationSetManagedByClusterArgoCDLabel,
                               "namespaceWithArgoCDApplicationSetManagedByClusterArgoCDLabel")
             a4 == recordLabel(a3, n, ArgoCDNotificationsManagedByClusterArgoCDLabel,
                               "namespaceWithArgoCDNotificationsManagedByClusterArgoCDLabel")
         IN  recordNamespaces(Tail(items), a4)

\* A variant of namespaceListFailureLevel with the level Error.
namespaceListFailureLevelError == LogLevel_Error

\* src/main.go:313: the level of the entry for Namespaces that cannot be listed,
\* whatever k8sClient.IncompleteControlPlaneData() says.
namespaceListFailureLevel == LogLevel_Fatal

\* src/main.go:309-340: list the Namespaces and build the ownership maps.
ListNamespaces ==
    /\ pc = "listNamespaces"
    /\ calls' = Append(calls, ListCall("NamespaceList"))
    /\ \E answer \in Drawn(Answers(NamespaceLists)) :
         /\ replay' = Given(answer)
         /\ IF answer.err
            THEN /\ resEntries' = Append(resEntries,
                       entry(namespaceListFailureLevel, "unable to list Namespaces"))
                 /\ pc' = "returned"
                 /\ UNCHANGED resClusterInformation
            ELSE LET made == [resClusterInformation EXCEPT
                                 !.namespaceWithManagedByLabel = Some(<<>>)]
                     r == recordNamespaces(answer.value, [info |-> made, panicked |-> FALSE])
                 IN  /\ resClusterInformation' = r.info
                     /\ pc' = IF r.panicked THEN "panicked" ELSE "returned"
                     /\ UNCHANGED resEntries
    /\ UNCHANGED <<incomplete, subscriptionList, gitopsSubscription, csv, output,
                   argoCDList, idx, reports>>
    /\ UNCHANGED <<ruleVars, argVars>>

(***************************************************************************)
(* acquireInstallConfigurationData run twice on data sources that give the *)
(* same answers: the first says its data is incomplete (as the client of   *)
(* must-gather data does, src/clients/client.go:17-22), the second that it *)
(* is complete.                                                            *)
(***************************************************************************)
InitPair ==
    /\ pc = "listSubscriptions"
    /\ incomplete = TRUE
    /\ replay = Some([answers |-> <<>>, at |-> 1, first |-> None])
    /\ calls = <<>>
    /\ subscriptionList = <<>>
    /\ gitopsSubscription = None
    /\ csv = None
    /\ resClusterInformation = clusterInformation
    /\ resEntries = <<>>
    /\ output = [entries |-> <<>>, summary |-> None]
    /\ argoCDList = <<>>
    /\ idx = 0
    /\ reports = <<>>
    /\ argoCD = None
    /\ issuesA = None
    /\ issuesB = None
    /\ NoArguments

\* The first run has ended: what it returned is kept, and the second run starts
\* from the state a call of acquireInstallConfigurationData starts from
\* (src/main.go:140-145).
StartSecondRun ==
    /\ pc \in {"returned", "panicked"}
    /\ replay # None
    /\ replay[1].first = None
    /\ replay' = Some([replay[1] EXCEPT
                         !.first = Some([entries |-> resEntries,
                                         info |-> resClusterInformation,
                                         ended |-> pc])])
    /\ incomplete' = FALSE
    /\ pc' = "listSubscriptions"
    /\ calls' = <<>>
    /\ subscriptionList' = <<>>
    /\ gitopsSubscription' = None
    /\ csv' = None
    /\ resClusterInformation' = clusterInformation
    /\ resEntries' = <<>>
    /\ UNCHANGED <<output, argoCDList, idx, reports>>
    /\ UNCHANGED <<ruleVars, argVars>>

NextPair ==
    \/ ListSubscriptions
    \/ FindSubscription
    \/ CheckInstalledCSV
    \/ ParseClusterConfigNamespaces
    \/ GetClusterServiceVersion
    \/ ListNamespaces
    \/ StartSecondRun

SpecPair == InitPair /\ [][NextPair]_vars

(***************************************************************************)
(* src/utils.go: matching of container arguments and environment variables.*)
(***************************************************************************)
\* A variant of StripQuotes that removes the double quotes only.
StripQuotesDoubleOnly(arg) == RemoveAll(arg, "\"")

StripQuotes(arg) == RemoveAll(RemoveAll(arg, "'"), "\"")

containerArgsContainsParamKV(args, paramKey, paramValue) ==
    LET key == TrimPrefix(paramKey, "--")
    IN  \E i \in 1..Len(args) :
            \/ StripQuotes(args[i]) = "--" \o key \o "=" \o paramValue
            \/ /\ StripQuotes(args[i]) = "--" \o key
               /\ i + 1 <= Len(args)
               /\ StripQuotes(args[i + 1]) = paramValue

containerArgsContainsParam(args, paramKey) ==
    LET key == TrimPrefix(paramKey, "--")
    IN  \E i \in 1..Len(args) :
            \/ HasPrefix(StripQuotes(args[i]), "--" \o key \o "=")
            \/ /\ StripQuotes(args[i]) = "--" \o key
               /\ i + 1 <= Len(args)

containerEnvVarContainsName(envs, name) ==
    \E i \in 1..Len(envs) : envs[i].name = name

containerEnvVarContainsKeyValue(envs, key, value) ==
    \E i \in 1..Len(envs) : envs[i].name = key /\ envs[i].value = value

(***************************************************************************)
(* Issues (src/main.go:489) and the rule functions.  A rule takes the      *)
(* object and the issues so far and returns the issues with its own        *)
(* appended.  The message of an issue is its text followed by the values   *)
(* formatted into it.                                                      *)
(***************************************************************************)
issue(level, field, message, unsupported) ==
    [level |-> level, field |-> field, message |-> message, unsupported |-> unsupported]

\* if cond { *issues = append(*issues, i) }
AppendIf(issues, cond, i) == IF cond THEN Append(issues, i) ELSE issues

\* *argoCD.Spec.X.Enabled == true, for a *bool
IsTrue(b) == b # None /\ b[1]

\* The IsEnabled() of the controller and server specs: enabled unless set to false.
IsEnabled(component) == component.enabled = None \/ component.enabled[1]

CustomImageMessage == <<"specifying custom images for essential Argo CD components is not supported">>

\* A variant of checkArgoCDCRForUnsupportedCustomImages that looks at the
\* top-level image only.
checkArgoCDCRForUnsupportedCustomImagesTopLevelOnly(a, issues) ==
    AppendIf(issues, Len(a.spec.image) > 0,
             issue(LogLevel_Error, ".spec.image", CustomImageMessage, TRUE))

\* src/main.go:517
checkArgoCDCRForUnsupportedCustomImages(a, issues) ==
    LET spec == a.spec
        i1 == AppendIf(issues,
                 spec.applicationSet # None /\ Len(spec.applicationSet[1].image) > 0,
                 issue(LogLevel_Error, ".spec.applicationSet.image", CustomImageMessage, TRUE))
        i2 == AppendIf(i1,
                 /\ spec.sso # None
                 /\ spec.sso[1].dex # None
                 /\ Len(spec.sso[1].dex[1].image) > 0,
                 issue(LogLevel_Error, ".spec.sso.dex.image", CustomImageMessage, TRUE))
        i3 == AppendIf(i2, Len(spec.ha.redisProxyImage) > 0,
                 issue(LogLevel_Error, ".spec.ha.redisProxyImage", CustomImageMessage, TRUE))
        i4 == AppendIf(i3,
                 /\ spec.argoCDAgent # None
                 /\ spec.argoCDAgent[1].agent # None
                 /\ Len(spec.argoCDAgent[1].agent[1].image) > 0,
                 issue(LogLevel_Error, ".spec.argoCDAgent.agent.image", CustomImageMessage, TRUE))
        i5 == AppendIf(i4,
                 /\ spec.argoCDAgent # None
                 /\ spec.argoCDAgent[1].principal # None
                 /\ Len(spec.argoCDAgent[1].principal[1].image) > 0,
                 issue(LogLevel_Error, ".spec.argoCDAgent.principal.image", CustomImageMessage, TRUE))
        i6 == AppendIf(i5, Len(spec.notifications.image) > 0,
                 issue(LogLevel_Error, ".spec.notifications.image", CustomImageMessage, TRUE))
        i7 == AppendIf(i6, Len(spec.redis.image) > 0,
                 issue(LogLevel_Error, ".spec.redis.image", CustomImageMessage, TRUE))
        i8 == AppendIf(i7, Len(spec.repo.image) > 0,
                 issue(LogLevel_Error, ".spec.repo.image", CustomImageMessage, TRUE))
    IN  AppendIf(i8, Len(spec.image) > 0,
                 issue(LogLevel_Error, ".spec.image", CustomImageMessage, TRUE))

\* src/main.go:615
checkArgoCDCRForDeprecatedFields(a, issues) ==
    LET spec == a.spec
        i1 == AppendIf(issues, Len(spec.configManagementPlugins) > 0,
                 issue(LogLevel_Error, ".spec.configMapPlugins",
                       <<"ConfigManagementPlugins field is no longer supported">>, FALSE))
        i2 == AppendIf(i1, spec.grafana.enabled,
                 issue(LogLevel_Error, ".spec.grafana",
                       <<"grafana field is deprecated">>, FALSE))
        i3 == AppendIf(i2, Len(spec.initialRepositories) > 0,
                 issue(LogLevel_Error, ".spec.initialRepositories",
                       <<"initialRepositories field is deprecated">>, FALSE))
        i4 == AppendIf(i3, Len(spec.repositoryCredentials) > 0,
                 issue(LogLevel_Error, ".spec.repositoryCredentials",
                       <<"repositoryCredentials field is deprecated">>, FALSE))
    IN  AppendIf(i4, spec.sso # None /\ spec.sso[1].keycloak # None,
                 issue(LogLevel_Error, ".spec.sso.keycloak",
                       <<"keycloak field is no longer supported">>, FALSE))

genericTechPreviewMessage == <<"This field is a tech preview feature in OpenShift GitOps">>

experimentalShardingAlgorithms == <<"round-robin", "consistent-hashing">>

\* The loop over experimentalShardingAlgorithms (src/main.go:712-732), from index k:
\* an argument match ends the loop.
RECURSIVE checkShardingAlgorithms(_, _, _)
checkShardingAlgorithms(appController, issues, k) ==
    IF k > Len(experimentalShardingAlgorithms) THEN issues
    ELSE LET alg == experimentalShardingAlgorithms[k]
             i1 == AppendIf(issues,
                      containerEnvVarContainsKeyValue(appController.env,
                          "ARGOCD_CONTROLLER_SHARDING_ALGORITHM", alg),
                      issue(LogLevel_Warn,
                            ".spec.controller.env[ARGOCD_CONTROLLER_SHARDING_ALGORITHM]=" \o alg,
                            genericTechPreviewMessage, TRUE))
         IN  IF containerArgsContainsParamKV(appController.extraCommandArgs, "sharding-method", alg)
             THEN Append(i1, issue(LogLevel_Warn,
                                   ".spec.controller.extraCommandArgs: --sharding-method=" \o alg,
                                   genericTechPreviewMessage, TRUE))
             ELSE checkShardingAlgorithms(appController, i1, k + 1)

\* src/main.go:659
checkForTechPreviewOrExperimentalFeatures(a, issues) ==
    LET spec == a.spec
        i1 == IF spec.applicationSet # None /\ IsTrue(spec.applicationSet[1].enabled)
              THEN LET appSet == spec.applicationSet[1]
                       j1 == AppendIf(issues, Len(appSet.sourceNamespaces) > 0,
                                issue(LogLevel_Warn, ".spec.applicationSet.sourceNamespaces",
                                      genericTechPreviewMessage, TRUE))
                       j2 == AppendIf(j1,
                                containerArgsContainsParam(appSet.extraCommandArgs,
                                                           "enable-progressive-syncs"),
                                issue(LogLevel_Warn,
                                      ".spec.applicationSet.extraCommandArgs = --enable-progressive-syncs",
                                      genericTechPreviewMessage, TRUE))
                   IN  AppendIf(j2,
                                containerEnvVarContainsKeyValue(appSet.env,
                                    "ARGOCD_APPLICATIONSET_CONTROLLER_ENABLE_PROGRESSIVE_SYNCS", "true"),
                                issue(LogLevel_Warn,
                                      ".spec.applicationSet.env[ARGOCD_APPLICATIONSET_CONTROLLER_ENABLE_PROGRESSIVE_SYNCS]=true",
                                      genericTechPreviewMessage, TRUE))
              ELSE issues
    IN  IF IsEnabled(spec.controller)
        THEN LET appController == spec.controller
                 k1 == AppendIf(i1, IsTrue(appController.sharding.dynamicScalingEnabled),
                          issue(LogLevel_Warn, ".spec.controller.sharding.dynamicScalingEnabled",
                                genericTechPreviewMessage, TRUE))
             IN  checkShardingAlgorithms(appController, k1, 1)
        ELSE i1

\* m[key] of a Go map of strings: the zero value for a missing key.
Lookup(m, key) == IF key \in DOMAIN m THEN m[key] ELSE ""

directTranslations ==
    << [extraConfigField |-> "admin.enabled", correspondingCRField |-> ".spec.disableAdmin"],
       [extraConfigField |-> "application.instanceLabelKey", correspondingCRField |-> ".spec.applicationInstanceLabelKey"],
       [extraConfigField |-> "application.resourceTrackingMethod", correspondingCRField |-> ".spec.resourceTrackingMethod"],
       [extraConfigField |-> "dex.config", correspondingCRField |-> ".spec.sso.dex"],
       [extraConfigField |-> "ga.anonymizeusers", correspondingCRField |-> ".spec.gaAnonymizeUsers"],
       [extraConfigField |-> "ga.trackingid", correspondingCRField |-> ".spec.gaTrackingID"],
       [extraConfigField |-> "help.chatText", correspondingCRField |-> ".spec.helpChatText"],
       [extraConfigField |-> "help.chatUrl", correspondingCRField |-> ".spec.helpChatURL"],
       [extraConfigField |-> "installationID", correspondingCRField |-> ".spec.installationID"],
       [extraConfigField |-> "kustomize.buildOptions", correspondingCRField |-> ".spec.kustomizeBuildOptions"],
       [extraConfigField |-> "oidc.config", correspondingCRField |-> ".spec.oidcConfig"],
       [extraConfigField |-> "resource.respectRBAC", correspondingCRField |-> ".spec.controller.respectRBAC"],
       [extraConfigField |-> "resource.exclusions", correspondingCRField |-> ".spec.resourceExclusions"],
       [extraConfigField |-> "resource.inclusions", correspondingCRField |-> ".spec.resourceInclusions"],
       [extraConfigField |-> "statusbadge.enabled", correspondingCRField |-> ".spec.statusBadgeEnabled"],
       [extraConfigField |-> "timeout.reconciliation", correspondingCRField |-> ".spec.controller.appSync"],
       [extraConfigField |-> "ui.bannercontent", correspondingCRField |-> ".spec.banner.content"],
       [extraConfigField |-> "ui.bannerpermanent", correspondingCRField |-> "spec.banner.permanent"],
       [extraConfigField |-> "ui.bannerposition", correspondingCRField |-> ".spec.banner.position"],
       [extraConfigField |-> "ui.bannerurl", correspondingCRField |-> ".spec.banner.url"],
       [extraConfigField |-> "users.anonymous.enabled", correspondingCRField |-> ".spec.usersAnonymousEnabled"] >>

\* The loop over directTranslations (src/main.go:776-784): one issue per entry of
\* the table whose key has a non-empty value in extraConfig, in the table's order.
checkDirectTranslations(extraConfig, issues) ==
    LET IsSet(t) == Lookup(extraConfig, t.extraConfigField) # ""
        found == SelectSeq(directTranslations, IsSet)
    IN  issues \o [k \in 1..Len(found) |->
                     issue(LogLevel_Warn,
                           ".spec.extraConfig[" \o found[k].extraConfigField \o "]",
                           <<"supported, but it is preferable to use",
                             found[k].correspondingCRField>>, FALSE)]

\* A variant of checkPrefix that names the prefix in the message and leaves the
\* field of the issue empty.
checkPrefixFieldInMessage(extraConfig, issues, prefix, crField) ==
    AppendIf(issues, \E key \in DOMAIN extraConfig : HasPrefix(key, prefix),
        issue(LogLevel_Warn, "",
              <<"supported, but it is preferable to use", crField, prefix>>, FALSE))

\* A variant of checkPrefix that adds the issue for every key with the prefix.
checkPrefixEveryKey(extraConfig, issues, prefix, crField) ==
    issues \o [k \in 1..Cardinality({ key \in DOMAIN extraConfig : HasPrefix(key, prefix) }) |->
                 issue(LogLevel_Warn, ".spec.extraConfig[" \o prefix \o "*]",
                       <<"supported, but it is preferable to use", crField>>, FALSE)]

\* One of the three loops of src/main.go:786-816: a key with the prefix adds the
\* issue once and ends the loop, whatever the order the map is ranged over.
checkPrefix(extraConfig, issues, prefix, crField) ==
    AppendIf(issues, \E key \in DOMAIN extraConfig : HasPrefix(key, prefix),
        issue(LogLevel_Warn, ".spec.extraConfig[" \o prefix \o "*]",
              <<"supported, but it is preferable to use", crField>>, FALSE))

\* src/main.go:741
checkForEnvVarsOrParamsWhichOverlapWithCRFields(a, issues) ==
    LET spec == a.spec
        i1 == IF Cardinality(DOMAIN spec.extraConfig) > 0
              THEN LET j1 == checkDirectTranslations(spec.extraConfig, issues)
                       j2 == checkPrefix(spec.extraConfig, j1,
                                 "resource.customizations.health.", ".spec.resourceHealthChecks")
                       j3 == checkPrefix(spec.extraConfig, j2,
                                 "resource.customizations.actions.", ".spec.resourceActions")
                   IN  checkPrefix(spec.extraConfig, j3,
                           "resource.customizations.ignoreDifferences.", ".spec.resourceIgnoreDifferences")
              ELSE issues
        i2 == IF spec.applicationSet # None /\ IsTrue(spec.applicationSet[1].enabled)
              THEN LET appSet == spec.applicationSet[1]
                       j1 == AppendIf(i1,
                                containerEnvVarContainsName(appSet.env,
                                    "ARGOCD_APPLICATIONSET_CONTROLLER_NAMESPACES"),
                                issue(LogLevel_Error,
                                      ".spec.applicationSet.env[ARGOCD_APPLICATIONSET_CONTROLLER_NAMESPACES]",
                                      <<"should not be set directly">>, FALSE))
                   IN  AppendIf(j1,
                                containerArgsContainsParam(appSet.extraCommandArgs,
                                                           "applicationset-namespaces"),
                                issue(LogLevel_Error,
                                      ".spec.applicationSet.extraCommandArgs: --applicationset-namespaces",
                                      <<"should not be set directly">>, FALSE))
              ELSE i1
        i3 == IF IsEnabled(spec.controller)
              THEN LET c == spec.controller
                       j1 == AppendIf(i2, containerArgsContainsParam(c.extraCommandArgs, "status-processors"),
                                issue(LogLevel_Warn, ".spec.controller.extraCommandArgs: --status-processors",
                                      <<"it is preferable to use", ".spec.controller.processors.status">>, FALSE))
                       j2 == AppendIf(j1,
                                containerEnvVarContainsName(c.env, "ARGOCD_APPLICATION_CONTROLLER_STATUS_PROCESSORS"),
                                issue(LogLevel_Error,
                                      ".spec.controller.env[ARGOCD_APPLICATION_CONTROLLER_STATUS_PROCESSORS]",
                                      <<"not guaranteed to be supported", ".spec.controller.processors.status">>, FALSE))
                       j3 == AppendIf(j2, containerArgsContainsParam(c.extraCommandArgs, "operation-processors"),
                                issue(LogLevel_Warn, ".spec.controller.extraCommandArgs: --operation-processors",
                                      <<"it is preferable to use", ".spec.controller.processors.operation">>, FALSE))
                       j4 == AppendIf(j3,
                                containerEnvVarContainsName(c.env, "ARGOCD_APPLICATION_CONTROLLER_OPERATION_PROCESSORS"),
                                issue(LogLevel_Error,
                                      ".spec.controller.env[ARGOCD_APPLICATION_CONTROLLER_OPERATION_PROCESSORS]",
                                      <<"not guaranteed to be supported", ".spec.controller.processors.operation">>, FALSE))
                       j5 == AppendIf(j4, containerEnvVarContainsName(c.env, "ARGOCD_CONTROLLER_REPLICAS"),
                                issue(LogLevel_Error, ".spec.controller.env[ARGOCD_CONTROLLER_REPLICAS]",
                                      <<"not supported", ".spec.controller.sharding.replicas">>, FALSE))
                       j6 == AppendIf(j5, containerArgsContainsParam(c.extraCommandArgs, "app-resync"),
                                issue(LogLevel_Warn, ".spec.controller.extraCommandArgs = --app-resync",
                                      <<"it is preferable to use", ".spec.controller.appSync">>, FALSE))
                   IN  AppendIf(j6, containerEnvVarContainsName(c.env, "ARGOCD_RECONCILIATION_TIMEOUT"),
                                issue(LogLevel_Error, ".spec.controller.env[ARGOCD_RECONCILIATION_TIMEOUT]",
                                      <<"not supported", ".spec.controller.appSync">>, FALSE))
              ELSE i2
        i4 == IF IsTrue(spec.repo.enabled)
              THEN AppendIf(i3, containerEnvVarContainsName(spec.repo.env, "ARGOCD_EXEC_TIMEOUT"),
                       issue(LogLevel_Warn, ".spec.repo.env[ARGOCD_EXEC_TIMEOUT]",
                             <<"it is preferable to use", ".spec.repo.execTimeout">>, FALSE))
              ELSE i3
    IN  IF IsEnabled(spec.server)
        THEN AppendIf(i4, containerEnvVarContainsName(spec.server.env, "ARGOCD_API_SERVER_REPLICAS"),
                 issue(LogLevel_Error, ".spec.server.env[ARGOCD_API_SERVER_REPLICAS]",
                       <<"not supported", ".spec.server.replicas">>, FALSE))
        ELSE i4

unsupportedExtraConfigKeysFromArgoCDCMDParamsCM ==
    { "controller.operation.processors", "controller.status.processors",
      "controller.log.format", "controller.log.level", "controller.sharding.algorithm",
      "controller.kubectl.parallelism.limit", "controller.diff.server.side",
      "server.insecure", "server.log.format", "server.log.level",
      "server.repo.server.timeout.seconds", "server.repo.server.strict.tls",
      "reposerver.log.format", "reposerver.log.level", "reposerver.parallelism.limit",
      "reposerver.disable.tls", "reposerver.repo.cache.expiration",
      "reposerver.default.cache.expiration", "reposerver.git.request.timeout",
      "dexserver.log.format", "dexserver.log.level", "dexserver.disable.tls",
      "applicationsetcontroller.log.format", "applicationsetcontroller.log.level",
      "applicationsetcontroller.dryrun", "applicationsetcontroller.namespaces",
      "applicationsetcontroller.allowed.scm.providers",
      "applicationsetcontroller.enable.scm.providers",
      "applicationsetcontroller.requeue.after",
      "applicationsetcontroller.status.max.resources.count",
      "notificationscontroller.log.level", "notificationscontroller.log.format" }

supportedCmdParams ==
    {"controller.resource.health.persist", "server.profile.enabled", "controller.profile.enabled"}

\* The orders in which a `range` over the map m can visit its keys: Go leaves the
\* iteration order of a map unspecified, and it differs from one loop to the next.
RangeOrders(m) ==
    { o \in [1..Cardinality(DOMAIN m) -> DOMAIN m] :
        \A i, j \in DOMAIN o : i # j => o[i] # o[j] }

\* The loop over extraConfig (src/main.go:981-989), visiting the keys in `order`.
RECURSIVE checkExtraConfigKeys(_, _)
checkExtraConfigKeys(order, issues) ==
    IF order = <<>> THEN issues
    ELSE checkExtraConfigKeys(Tail(order),
             AppendIf(issues, Head(order) \in unsupportedExtraConfigKeysFromArgoCDCMDParamsCM,
                 issue(LogLevel_Error, ".spec.extraConfig[" \o Head(order) \o "]",
                       <<"not a valid extraConfig key", Head(order)>>, FALSE)))

\* The loop over cmdParams (src/main.go:1052-1060), visiting the keys in `order`.
RECURSIVE checkCmdParamsKeys(_, _)
checkCmdParamsKeys(order, issues) ==
    IF order = <<>> THEN issues
    ELSE checkCmdParamsKeys(Tail(order),
             AppendIf(issues, Head(order) \notin supportedCmdParams,
                 issue(LogLevel_Error, ".spec.cmdParams[" \o Head(order) \o "]",
                       <<"not a supported parameter of .spec.cmdParams", Head(order)>>, FALSE)))

\* n * 35 for an int32 n as Go computes it, wrapped to 32 bits.  The product is
\* built from the 16-bit halves of n, so that no intermediate value leaves the
\* 32-bit range.
MulInt32By35(n) ==
    LET lo == n % 65536
        hi == (n \div 65536) % 65536
        low16 == (lo * 35) % 65536
        high16 == (hi * 35 + (lo * 35) \div 65536) % 65536
    IN  IF high16 >= 32768 THEN (high16 - 65536) * 65536 + low16
                           ELSE high16 * 65536 + low16

\* corev1.ResourceList.Memory(): the memory quantity, a zero quantity when the list
\* has no memory entry; never nil.
Memory(limits) == IF "memory" \in DOMAIN limits THEN limits["memory"] ELSE 0

\* A variant of clustersPerShardUnused that does not look at sharding.enabled.
clustersPerShardUnusedIgnoringEnabled(sharding) ==
    /\ (sharding.dynamicScalingEnabled = None \/ sharding.dynamicScalingEnabled[1] = FALSE)
    /\ sharding.clustersPerShard # 0

\* The nested conditions on the sharding settings (src/main.go:996-1000): sharding
\* is enabled, dynamic scaling is nil or false, and clustersPerShard is not zero.
clustersPerShardUnused(sharding) ==
    /\ sharding.enabled
    /\ (sharding.dynamicScalingEnabled = None \/ sharding.dynamicScalingEnabled[1] = FALSE)
    /\ sharding.clustersPerShard # 0

\* src/main.go:928
checkForIncorrectConfigurations(a, issues, extraConfigOrder, cmdParamsOrder) ==
    LET spec == a.spec
        i1 == IF Cardinality(DOMAIN spec.extraConfig) > 0
              THEN checkExtraConfigKeys(extraConfigOrder, issues)
              ELSE issues
        i2 == IF IsEnabled(spec.controller)
              THEN LET c == spec.controller
                       j1 == AppendIf(i1, clustersPerShardUnused(c.sharding),
                                issue(LogLevel_Error, ".spec.controller.sharding.clustersPerShard",
                                      <<"clusterPerShard is specified, but dynamic scaling is disabled">>, FALSE))
                       requiredMemoryInMiBs == MulInt32By35(c.processors.operation)
                   IN  IF /\ c.processors.operation > 0
                          /\ c.resources # None
                          /\ c.resources[1].limits # None
                       THEN LET memoryLimitInMiBs == Memory(c.resources[1].limits[1]) \div (1024 * 1024)
                            IN  AppendIf(j1, requiredMemoryInMiBs > memoryLimitInMiBs,
                                    issue(LogLevel_Warn, ".spec.controller.processors.operation",
                                          <<"operation processors may require more memory than the limit",
                                            c.processors.operation, requiredMemoryInMiBs,
                                            memoryLimitInMiBs>>, FALSE))
                       ELSE j1
              ELSE i1
    IN  IF Cardinality(DOMAIN spec.cmdParams) > 0
        THEN checkCmdParamsKeys(cmdParamsOrder, i2)
        ELSE i2

\* A variant of checkConditions whose message names the status of the condition.
RECURSIVE checkConditionsNamingStatus(_, _)
checkConditionsNamingStatus(conditions, issues) ==
    IF conditions = <<>> THEN issues
    ELSE checkConditionsNamingStatus(Tail(conditions),
             AppendIf(issues,
                 Head(conditions).type = "Reconciled" /\ Head(conditions).status # "True",
                 issue(LogLevel_Error, ".status.conditions[].type = Reconciled",
                       <<"The Reconciled condition is currently not true", Head(conditions).status>>,
                       FALSE)))

\* The loop over .Status.Conditions (src/main.go:1074-1082).
RECURSIVE checkConditions(_, _)
checkConditions(conditions, issues) ==
    IF conditions = <<>> THEN issues
    ELSE checkConditions(Tail(conditions),
             AppendIf(issues,
                 Head(conditions).type = "Reconciled" /\ Head(conditions).status # "True",
                 issue(LogLevel_Error, ".status.conditions[].type = Reconciled",
                       <<"The Reconciled condition is currently not true">>, FALSE)))

\* A variant of checkArgoCDStatusField that expects the phase in lower case.
checkArgoCDStatusFieldLowerCase(a, issues) ==
    checkConditions(a.status.conditions,
        AppendIf(issues, a.status.phase # "available",
            issue(LogLevel_Error, ".status.phase",
                  <<"The .status.phase field is not currently available">>, FALSE)))

\* src/main.go:1065
checkArgoCDStatusField(a, issues) ==
    checkConditions(a.status.conditions,
        AppendIf(issues, a.status.phase # "Available",
            issue(LogLevel_Error, ".status.phase",
                  <<"The .status.phase field is not currently available">>, FALSE)))

\* src/main.go:1085
checkForFailingBestPractices(a, issues) ==
    LET spec == a.spec
        i1 == AppendIf(issues, IsEnabled(spec.server) /\ spec.server.insecure,
                 issue(LogLevel_Warn, ".spec.server.insecure",
                       <<"Argo CD server component is currently in an insecure state">>, FALSE))
        i2 == AppendIf(i1,
                 /\ spec.argoCDAgent # None
                 /\ spec.argoCDAgent[1].principal # None
                 /\ spec.argoCDAgent[1].principal[1].tls # None
                 /\ IsTrue(spec.argoCDAgent[1].principal[1].tls[1].insecureGenerate),
                 issue(LogLevel_Warn, ".spec.argoCDAgent.principal.TLS.insecureGenerate",
                       <<"Argo CD Agent principal is generating insecure TLS certificates">>, FALSE))
    IN  AppendIf(i2,
                 /\ spec.argoCDAgent # None
                 /\ spec.argoCDAgent[1].agent # None
                 /\ spec.argoCDAgent[1].agent[1].tls # None
                 /\ IsTrue(spec.argoCDAgent[1].agent[1].tls[1].insecure),
                 issue(LogLevel_Warn, ".spec.argoCDAgent.agent.tls.insecure",
                       <<"Argo CD Agent agent is running in an insecure configuration">>, FALSE))

\* A variant of checkIndividualArgoCDCR that returns at the first rule that
\* reports an issue.
checkIndividualArgoCDCRFirstRuleOnly(a, clusterInfo, extraConfigOrder, cmdParamsOrder) ==
    LET i1 == checkArgoCDCRForDeprecatedFields(a, <<>>)
        i2 == checkArgoCDCRForUnsupportedCustomImages(a, i1)
        i3 == checkForTechPreviewOrExperimentalFeatures(a, i2)
        i4 == checkForEnvVarsOrParamsWhichOverlapWithCRFields(a, i3)
        i5 == checkForIncorrectConfigurations(a, i4, extraConfigOrder, cmdParamsOrder)
        i6 == checkArgoCDStatusField(a, i5)
    IN  IF i1 # <<>> THEN i1
        ELSE IF i2 # <<>> THEN i2
        ELSE IF i3 # <<>> THEN i3
        ELSE IF i4 # <<>> THEN i4
        ELSE IF i5 # <<>> THEN i5
        ELSE IF i6 # <<>> THEN i6
        ELSE checkForFailingBestPractices(a, i6)

\* src/main.go:498: the seven rules in their order.  clusterInfo is passed and not
\* read.  The two orders are those of the two map loops of
\* checkForIncorrectConfigurations.
checkIndividualArgoCDCR(a, clusterInfo, extraConfigOrder, cmdParamsOrder) ==
    LET i1 == checkArgoCDCRForDeprecatedFields(a, <<>>)
        i2 == checkArgoCDCRForUnsupportedCustomImages(a, i1)
        i3 == checkForTechPreviewOrExperimentalFeatures(a, i2)
        i4 == checkForEnvVarsOrParamsWhichOverlapWithCRFields(a, i3)
        i5 == checkForIncorrectConfigurations(a, i4, extraConfigOrder, cmdParamsOrder)
        i6 == checkArgoCDStatusField(a, i5)
    IN  checkForFailingBestPractices(a, i6)

(***************************************************************************)
(* ArgoCD objects.  CleanArgoCD is an object on which no rule has anything *)
(* to report; the objects the rules are checked on differ from it in at    *)
(* most MaxDeviations fields, each taking any value of the field's set.    *)
(***************************************************************************)
EnvVar(name, value) == [name |-> name, value |-> value]

CleanArgoCD ==
    [ spec |->
        [ configManagementPlugins |-> "",
          grafana |-> [enabled |-> FALSE],
          initialRepositories |-> "",
          repositoryCredentials |-> "",
          sso |-> None,
          applicationSet |-> None,
          ha |-> [redisProxyImage |-> ""],
          argoCDAgent |-> None,
          notifications |-> [image |-> ""],
          redis |-> [image |-> ""],
          repo |-> [image |-> "", enabled |-> None, env |-> <<>>],
          image |-> "",
          controller |->
              [ enabled |-> None,
                sharding |-> [enabled |-> FALSE, dynamicScalingEnabled |-> None, clustersPerShard |-> 0],
                env |-> <<>>,
                extraCommandArgs |-> <<>>,
                processors |-> [operation |-> 0],
                resources |-> None ],
          server |-> [enabled |-> None, env |-> <<>>, insecure |-> FALSE],
          extraConfig |-> <<>>,
          cmdParams |-> <<>> ],
      status |-> [phase |-> "Available", conditions |-> <<>>] ]

OptionalBools == {None, Some(TRUE), Some(FALSE)}
SetBools == {Some(TRUE), Some(FALSE)}
CustomImages == {"quay.io/example/custom:latest", "x"}
CustomImage == "registry.example.com/custom"

SSOs ==
    { Some([dex |-> d, keycloak |-> None]) :
        d \in {None, Some([image |-> ""]), Some([image |-> "quay.io/example/dex:latest"])} }
    \cup { Some([dex |-> d, keycloak |-> Some([realm |-> "argocd"])]) :
             d \in {None, Some([image |-> "x"])} }

ApplicationSet(image, enabled, sourceNamespaces, extraCommandArgs, env) ==
    Some([image |-> image, enabled |-> enabled, sourceNamespaces |-> sourceNamespaces,
          extraCommandArgs |-> extraCommandArgs, env |-> env])

ApplicationSets ==
    { ApplicationSet(i, None, <<>>, <<>>, <<>>) : i \in {"", "quay.io/example/appset:latest"} }
    \cup { ApplicationSet("", Some(e), <<"team-a">>,
                          <<"--enable-progressive-syncs", "--applicationset-namespaces=team-a">>,
                          <<EnvVar("ARGOCD_APPLICATIONSET_CONTROLLER_ENABLE_PROGRESSIVE_SYNCS", "true")>>) :
             e \in BOOLEAN }
    \cup { ApplicationSet("", Some(TRUE), n, <<>>, <<>>) : n \in {<<>>, <<"team-a">>} }
    \cup { ApplicationSet("", Some(TRUE), <<>>, x, <<>>) :
             x \in { <<"--enable-progressive-syncs=true">>,
                     <<"--applicationset-namespaces", "team-a">> } }
    \cup { ApplicationSet("", Some(TRUE), <<>>, <<>>, x) :
             x \in { <<EnvVar("ARGOCD_APPLICATIONSET_CONTROLLER_ENABLE_PROGRESSIVE_SYNCS", "true")>>,
                     <<EnvVar("ARGOCD_APPLICATIONSET_CONTROLLER_ENABLE_PROGRESSIVE_SYNCS", "false"),
                       EnvVar("ARGOCD_APPLICATIONSET_CONTROLLER_NAMESPACES", "team-a")>> } }

AgentSpecs ==
    { Some([image |-> "quay.io/example/agent:latest", tls |-> None]),
      Some([image |-> "", tls |-> Some([insecure |-> Some(TRUE)])]),
      Some([image |-> "", tls |-> Some([insecure |-> Some(FALSE)])]) }

PrincipalSpecs ==
    { Some([image |-> "quay.io/example/principal:latest", tls |-> None]),
      Some([image |-> "", tls |-> Some([insecureGenerate |-> Some(TRUE)])]),
      Some([image |-> "", tls |-> Some([insecureGenerate |-> None])]) }

ArgoCDAgents ==
    { Some([agent |-> g, principal |-> None]) : g \in {None} \cup AgentSpecs }
    \cup { Some([agent |-> None, principal |-> q]) : q \in PrincipalSpecs }
    \cup { Some([agent |-> Some([image |-> "x", tls |-> Some([insecure |-> Some(TRUE)])]),
                 principal |-> Some([image |-> "x", tls |-> Some([insecureGenerate |-> Some(TRUE)])])]) }

Shardings ==
    [ enabled : {TRUE}, dynamicScalingEnabled : OptionalBools, clustersPerShard : {0, 5} ]
    \cup [ enabled : {FALSE}, dynamicScalingEnabled : {None, Some(TRUE)}, clustersPerShard : {5} ]

ControllerEnvs ==
    { <<EnvVar("ARGOCD_CONTROLLER_SHARDING_ALGORITHM", "round-robin")>>,
      <<EnvVar("ARGOCD_CONTROLLER_SHARDING_ALGORITHM", "consistent-hashing")>>,
      <<EnvVar("HOME", "/home/argocd"), EnvVar("ARGOCD_CONTROLLER_SHARDING_ALGORITHM", "legacy")>>,
      <<EnvVar("ARGOCD_APPLICATION_CONTROLLER_STATUS_PROCESSORS", "5"),
        EnvVar("ARGOCD_APPLICATION_CONTROLLER_OPERATION_PROCESSORS", "5")>>,
      <<EnvVar("ARGOCD_CONTROLLER_REPLICAS", "2"),
        EnvVar("ARGOCD_RECONCILIATION_TIMEOUT", "60s")>> }

ControllerArgs ==
    { <<"--sharding-method=round-robin">>,
      <<"--sharding-method", "consistent-hashing">>,
      <<"\"--sharding-method='consistent-hashing'\"">>,
      <<"--sharding-method", "legacy", "--sharding-method">>,
      <<"--status-processors=5", "--operation-processors", "10">>,
      <<"--app-resync=60">> }

\* .spec.controller.processors.operation is an int32.
OperationProcessors == {10, 20, 61356676, -1}

MiB == 1024 * 1024

\* .spec.controller.resources: nil, without limits, or with a ResourceList of limits
\* (a quantity is its value in bytes, or in cores for cpu).
ControllerResources ==
    { Some([limits |-> None]),
      Some([limits |-> Some(<<>>)]),
      Some([limits |-> Some([r \in {"cpu"} |-> 2])]),
      Some([limits |-> Some([r \in {"memory"} |-> 512 * MiB])]),
      Some([limits |-> Some([r \in {"memory"} |-> 350 * MiB + 1])]),
      Some([limits |-> Some([r \in {"memory"} |-> 2047 * MiB])]) }

ExtraConfigKeys ==
    << "admin.enabled",
       "controller.log.level", "server.insecure",
       "resource.customizations.health.apps_Deployment",
       "resource.customizations.health.batch_Job",
       "resource.customizations.actions.apps_Deployment",
       "resource.customizations.ignoreDifferences.all",
       "accounts.alice" >>

\* The values a key of .spec.extraConfig is set to.
ExtraConfigValues(key) ==
    IF key \in {"admin.enabled", "server.insecure"} THEN {"true", ""} ELSE {"true"}

CmdParamsKeys ==
    << "controller.resource.health.persist", "controller.log.level", "server.insecure" >>

Conditions ==
    { <<[type |-> "Reconciled", status |-> "True"]>>,
      <<[type |-> "Reconciled", status |-> "False"]>>,
      <<[type |-> "Reconciled", status |-> "Unknown"], [type |-> "Reconciled", status |-> "False"]>>,
      <<[type |-> "Ready", status |-> "False"]>> }

Phases == {"Pending", ""}

\* The map m with key set to value.
WithKey(m, key, value) == (key :> value) @@ m

\* The fields of an object, numbered: the fixed fields, then one per key of
\* .spec.extraConfig and one per key of .spec.cmdParams.
FixedFields ==
    << "configManagementPlugins", "grafana", "initialRepositories", "repositoryCredentials",
       "sso", "applicationSet", "ha.redisProxyImage", "argoCDAgent", "notifications.image",
       "redis.image", "repo.image", "repo.enabled", "repo.env", "image",
       "controller.enabled", "controller.sharding", "controller.env",
       "controller.extraCommandArgs", "controller.processors.operation",
       "controller.resources", "server.enabled", "server.env", "server.insecure",
       "status.phase", "status.conditions" >>

FieldCount == Len(FixedFields) + Len(ExtraConfigKeys) + Len(CmdParamsKeys)

\* The objects that differ from a in the value of the field numbered f.
FieldDeviations(a, f) ==
    IF f > Len(FixedFields) + Len(ExtraConfigKeys)
    THEN { [a EXCEPT !.spec.cmdParams =
                WithKey(@, CmdParamsKeys[f - Len(FixedFields) - Len(ExtraConfigKeys)], "true")] }
    ELSE IF f > Len(FixedFields)
    THEN { [a EXCEPT !.spec.extraConfig = WithKey(@, ExtraConfigKeys[f - Len(FixedFields)], v)] :
             v \in ExtraConfigValues(ExtraConfigKeys[f - Len(FixedFields)]) }
    ELSE CASE FixedFields[f] = "configManagementPlugins" ->
                { [a EXCEPT !.spec.configManagementPlugins = "- name: kasane"] }
           [] FixedFields[f] = "grafana" ->
                { [a EXCEPT !.spec.grafana.enabled = TRUE] }
           [] FixedFields[f] = "initialRepositories" ->
                { [a EXCEPT !.spec.initialRepositories = "- repo: https://example.com/r.git"] }
           [] FixedFields[f] = "repositoryCredentials" ->
                { [a EXCEPT !.spec.repositoryCredentials = "- url: https://example.com"] }
           [] FixedFields[f] = "sso" ->
                { [a EXCEPT !.spec.sso = v] : v \in SSOs }
           [] FixedFields[f] = "applicationSet" ->
                { [a EXCEPT !.spec.applicationSet = v] : v \in ApplicationSets }
           [] FixedFields[f] = "ha.redisProxyImage" ->
                { [a EXCEPT !.spec.ha.redisProxyImage = CustomImage] }
           [] FixedFields[f] = "argoCDAgent" ->
                { [a EXCEPT !.spec.argoCDAgent = v] : v \in ArgoCDAgents }
           [] FixedFields[f] = "notifications.image" ->
                { [a EXCEPT !.spec.notifications.image = CustomImage] }
           [] FixedFields[f] = "redis.image" ->
                { [a EXCEPT !.spec.redis.image = CustomImage] }
           [] FixedFields[f] = "repo.image" ->
                { [a EXCEPT !.spec.repo.image = CustomImage] }
           [] FixedFields[f] = "repo.enabled" ->
                { [a EXCEPT !.spec.repo.enabled = v] : v \in SetBools }
           [] FixedFields[f] = "repo.env" ->
                { [a EXCEPT !.spec.repo.env = <<EnvVar("ARGOCD_EXEC_TIMEOUT", "3m")>>] }
           [] FixedFields[f] = "image" ->
                { [a EXCEPT !.spec.image = v] : v \in CustomImages }
           [] FixedFields[f] = "controller.enabled" ->
                { [a EXCEPT !.spec.controller.enabled = v] : v \in SetBools }
           [] FixedFields[f] = "controller.sharding" ->
                { [a EXCEPT !.spec.controller.sharding = v] : v \in Shardings }
           [] FixedFields[f] = "controller.env" ->
                { [a EXCEPT !.spec.controller.env = v] : v \in ControllerEnvs }
           [] FixedFields[f] = "controller.extraCommandArgs" ->
                { [a EXCEPT !.spec.controller.extraCommandArgs = v] : v \in ControllerArgs }
           [] FixedFields[f] = "controller.processors.operation" ->
                { [a EXCEPT !.spec.controller.processors.operation = v] : v \in OperationProcessors }
           [] FixedFields[f] = "controller.resources" ->
                { [a EXCEPT !.spec.controller.resources = v] : v \in ControllerResources }
           [] FixedFields[f] = "server.enabled" ->
                { [a EXCEPT !.spec.server.enabled = v] : v \in SetBools }
           [] FixedFields[f] = "server.env" ->
                { [a EXCEPT !.spec.server.env = <<EnvVar("ARGOCD_API_SERVER_REPLICAS", "3")>>] }
           [] FixedFields[f] = "server.insecure" ->
                { [a EXCEPT !.spec.server.insecure = TRUE] }
           [] FixedFields[f] = "status.phase" ->
                { [a EXCEPT !.status.phase = v] : v \in Phases }
           [] FixedFields[f] = "status.conditions" ->
                { [a EXCEPT !.status.conditions = v] : v \in Conditions }

\* argoCD is a, or differs from it in at most n of the fields numbered from f on.
RECURSIVE DeviatesFrom(_, _, _)
DeviatesFrom(a, n, f) ==
    \/ argoCD = a
    \/ /\ n > 0
       /\ \E g \in f..FieldCount : \E b \in FieldDeviations(a, g) : DeviatesFrom(b, n - 1, g + 1)

(***************************************************************************)
(* The rule engine on its own: checkIndividualArgoCDCR called twice on an  *)
(* object.                                                                 *)
(***************************************************************************)
InitRules ==
    /\ pc = "evaluateFirst"
    /\ DeviatesFrom(CleanArgoCD, MaxDeviations, 1)
    /\ issuesA = None
    /\ issuesB = None
    /\ incomplete = FALSE
    /\ calls = <<>>
    /\ subscriptionList = <<>>
    /\ gitopsSubscription = None
    /\ csv = None
    /\ resClusterInformation = clusterInformation
    /\ resEntries = <<>>
    /\ output = [entries |-> <<>>, summary |-> None]
    /\ argoCDList = <<>>
    /\ idx = 0
    /\ reports = <<>>
    /\ NoArguments
    /\ replay = None

EvaluateFirst ==
    /\ pc = "evaluateFirst"
    /\ \E o1 \in RangeOrders(argoCD.spec.extraConfig), o2 \in RangeOrders(argoCD.spec.cmdParams) :
         issuesA' = Some(checkIndividualArgoCDCR(argoCD, resClusterInformation, o1, o2))
    /\ pc' = "evaluateSecond"
    /\ UNCHANGED <<argoCD, issuesB>>
    /\ UNCHANGED <<runVars, argVars>>

EvaluateSecond ==
    /\ pc = "evaluateSecond"
    /\ \E o1 \in RangeOrders(argoCD.spec.extraConfig), o2 \in RangeOrders(argoCD.spec.cmdParams) :
         issuesB' = Some(checkIndividualArgoCDCR(argoCD, resClusterInformation, o1, o2))
    /\ pc' = "evaluated"
    /\ UNCHANGED <<argoCD, issuesA>>
    /\ UNCHANGED <<runVars, argVars>>

NextRules == EvaluateFirst \/ EvaluateSecond

SpecRules == InitRules /\ [][NextRules]_vars

(***************************************************************************)
(* The matching of command arguments on its own: containerArgsContainsParamKV *)
(* and containerArgsContainsParam (src/utils.go:21-75) called on a list of *)
(* arguments.                                                              *)
(***************************************************************************)
\* Arguments of a container: the two forms of a parameter, with and without
\* quote characters, and arguments that come close to them.
ArgTokens ==
    { "--sharding-method=legacy", "--sharding-method", "legacy",
      "'--sharding-method'", "\"--sharding-method='legacy'\"", "\"legacy\"",
      "--sharding-method=", "sharding-method=legacy", "--sharding" }

\* The keys and the values the callers look for.
ArgKeys == {"sharding-method", "--sharding-method", "sharding"}

ArgValues == {"legacy", ""}

InitArgs ==
    /\ pc = "matchArguments"
    /\ cmdArgs \in SeqUpTo(ArgTokens, MaxArgs)
    /\ cmdKey \in ArgKeys
    /\ cmdValue \in ArgValues
    /\ matches = None
    /\ replay = None
    /\ incomplete = FALSE
    /\ calls = <<>>
    /\ subscriptionList = <<>>
    /\ gitopsSubscription = None
    /\ csv = None
    /\ resClusterInformation = clusterInformation
    /\ resEntries = <<>>
    /\ output = [entries |-> <<>>, summary |-> None]
    /\ argoCDList = <<>>
    /\ idx = 0
    /\ reports = <<>>
    /\ argoCD = None
    /\ issuesA = None
    /\ issuesB = None

\* The two functions called on the arguments.
MatchArguments ==
    /\ pc = "matchArguments"
    /\ matches' = Some([keyValue |-> containerArgsContainsParamKV(cmdArgs, cmdKey, cmdValue),
                         key |-> containerArgsContainsParam(cmdArgs, cmdKey)])
    /\ pc' = "matched"
    /\ UNCHANGED <<cmdArgs, cmdKey, cmdValue>>
    /\ UNCHANGED <<runVars, ruleVars>>

NextArgs == MatchArguments

SpecArgs == InitArgs /\ [][NextArgs]_vars

(***************************************************************************)
(* sortIssuesByField (src/main.go:457): sort.Slice by the field, compared  *)
(* as Go compares strings, byte by byte.                                   *)
(***************************************************************************)
\* The characters that field paths are made of, in the order of their ASCII
\* codes.
Ascii == " *+,-./0123456789:=ABCDEFGHIJKLMNOPQRSTUVWXYZ[]_abcdefghijklmnopqrstuvwxyz"

AsciiChars == [i \in 1..Len(Ascii) |-> Char(Ascii, i)]

Code(c) == CHOOSE i \in DOMAIN AsciiChars : AsciiChars[i] = c

Min(x, y) == IF x <= y THEN x ELSE y

\* The first place in lo..hi at which a and b differ, hi when they agree up to
\* hi - 1: a and b agree before lo, and the place is found by halving lo..hi.
RECURSIVE FirstDifference(_, _, _, _)
FirstDifference(a, b, lo, hi) ==
    IF lo >= hi THEN hi
    ELSE LET mid == (lo + hi) \div 2
         IN  IF SubSeq(a, lo, mid) = SubSeq(b, lo, mid)
             THEN FirstDifference(a, b, mid + 1, hi)
             ELSE FirstDifference(a, b, lo, mid)

\* a < b for Go strings: decided by the first byte that differs, and by the
\* lengths when one string is a prefix of the other.
StringLess(a, b) ==
    LET n == Min(Len(a), Len(b))
        k == FirstDifference(a, b, 1, n + 1)
    IN  IF k = n + 1 THEN Len(a) < Len(b)
        ELSE Code(Char(a, k)) < Code(Char(b, k))

\* A variant of sortIssuesByField that leaves the issues as they are.
sortIssuesByFieldUnsorted(issues) == {issues}

\* The orders of the places `left` of the list in which no place is followed by
\* one of a smaller field: each starts with a place of a least field.
RECURSIVE SortedOrders(_, _)
SortedOrders(issues, left) ==
    IF left = {} THEN { <<>> }
    ELSE UNION { { <<i>> \o rest : rest \in SortedOrders(issues, left \ {i}) } :
                   i \in { m \in left :
                             \A j \in left : ~StringLess(issues[j].field, issues[m].field) } }

\* The results sort.Slice can leave: the issues in an order in which no issue is
\* followed by one of a smaller field.  sort.Slice is not a stable sort: it
\* promises nothing on the order of issues of equal fields.
sortIssuesByField(issues) ==
    { [k \in 1..Len(issues) |-> issues[o[k]]] : o \in SortedOrders(issues, 1..Len(issues)) }

(***************************************************************************)
(* runChecks, after the resolver has returned.                             *)
(***************************************************************************)
\* The ArgoCD objects a listing returns in the run.
ListedArgoCDs ==
    { CleanArgoCD,
      [CleanArgoCD EXCEPT !.spec.image = CustomImage, !.spec.server.insecure = TRUE],
      [CleanArgoCD EXCEPT !.spec.extraConfig =
                              [k \in {"server.insecure", "controller.log.level"} |-> "true"],
                          !.status.phase = "Pending",
                          !.status.conditions =
                              <<[type |-> "Reconciled", status |-> "Unknown"],
                                [type |-> "Reconciled", status |-> "False"]>>] }

\* src/main.go:345-379: print the entries, stop on a Fatal one, reset the entries
\* and print the summary.  The resolver has returned: of its variables the
\* cluster information and the entries are what runChecks holds.
ReportEntries ==
    /\ pc = "returned"
    /\ subscriptionList' = <<>>
    /\ gitopsSubscription' = None
    /\ csv' = None
    /\ IF entryListContainsFatal(resEntries)
       THEN /\ output' = [entries |-> resEntries, summary |-> None]
            /\ pc' = "done"
            /\ UNCHANGED resEntries
       ELSE /\ resEntries' = <<>>
            /\ output' =
                 [entries |-> resEntries,
                  summary |-> Some(
                     [operatorVersion |->
                          IF resClusterInformation.operatorVersion # None
                          THEN resClusterInformation.operatorVersion[1] ELSE "N/A",
                      operatorInstallNS |->
                          IF resClusterInformation.operatorInstallNS # ""
                          THEN resClusterInformation.operatorInstallNS ELSE "N/A",
                      clusterScopedNamespaces |->
                          IF Len(resClusterInformation.clusterScopedNamespaces) > 0
                          THEN resClusterInformation.clusterScopedNamespaces ELSE <<>>])]
            /\ pc' = "listArgoCDs"
    /\ UNCHANGED <<incomplete, replay, calls, resClusterInformation, argoCDList, idx, reports>>
    /\ UNCHANGED <<ruleVars, argVars>>

\* A variant of ListArgoCDs for which a list without items is a run that is done.
ListArgoCDsEmptyIsDone ==
    /\ pc = "listArgoCDs"
    /\ calls' = Append(calls, ListCall("ArgoCDList"))
    /\ \E err \in BOOLEAN, items \in SeqUpTo(ListedArgoCDs, MaxArgoCDs) :
         IF err
         THEN /\ pc' = "exit1"
              /\ UNCHANGED <<argoCDList, idx>>
         ELSE /\ argoCDList' = items
              /\ idx' = 1
              /\ pc' = IF Len(items) = 0 THEN "done" ELSE "evaluate"
    /\ UNCHANGED <<incomplete, replay, subscriptionList, gitopsSubscription, csv,
                   resClusterInformation, resEntries, output, reports>>
    /\ UNCHANGED <<ruleVars, argVars>>

\* src/main.go:384-402: list the ArgoCDs of all namespaces; failWithError ends the
\* process with status 1 when the call fails or lists nothing.
ListArgoCDs ==
    /\ pc = "listArgoCDs"
    /\ calls' = Append(calls, ListCall("ArgoCDList"))
    /\ \E err \in BOOLEAN, items \in SeqUpTo(ListedArgoCDs, MaxArgoCDs) :
         IF err \/ Len(items) = 0
         THEN /\ pc' = "exit1"
              /\ UNCHANGED <<argoCDList, idx>>
         ELSE /\ argoCDList' = items
              /\ idx' = 1
              /\ pc' = "evaluate"
    /\ UNCHANGED <<incomplete, replay, subscriptionList, gitopsSubscription, csv,
                   resClusterInformation, resEntries, output, reports>>
    /\ UNCHANGED <<ruleVars, argVars>>

\* src/main.go:405-453: one pass of the loop over the listed ArgoCDs: evaluate the
\* next object, sort its issues and report them.
EvaluateArgoCD ==
    /\ pc = "evaluate"
    /\ \E o1 \in RangeOrders(argoCDList[idx].spec.extraConfig),
          o2 \in RangeOrders(argoCDList[idx].spec.cmdParams) :
         \E issues \in {checkIndividualArgoCDCR(argoCDList[idx], resClusterInformation, o1, o2)} :
            \E sorted \in sortIssuesByField(issues) :
               reports' = Append(reports, [issues |-> issues, reported |-> sorted])
    /\ idx' = idx + 1
    /\ pc' = IF idx = Len(argoCDList) THEN "done" ELSE "evaluate"
    /\ UNCHANGED <<incomplete, replay, calls, subscriptionList, gitopsSubscription, csv,
                   resClusterInformation, resEntries, output, argoCDList>>
    /\ UNCHANGED <<ruleVars, argVars>>

Next ==
    \/ ListSubscriptions
    \/ FindSubscription
    \/ CheckInstalledCSV
    \/ ParseClusterConfigNamespaces
    \/ GetClusterServiceVersion
    \/ ListNamespaces
    \/ ReportEntries
    \/ ListArgoCDs
    \/ EvaluateArgoCD

Spec == InitRun /\ [][Next]_vars

(***************************************************************************)
(* Properties of the run of runChecks (specification Spec).                *)
(***************************************************************************)
HasFatal(entries) == \E i \in 1..Len(entries) : entries[i].level = "Fatal"

ArgoCDsListed == \E i \in 1..Len(calls) : calls[i].kind = "ArgoCDList"

NamespacesListed == \E i \in 1..Len(calls) : calls[i].kind = "NamespaceList"

ClusterServiceVersionRequested == \E i \in 1..Len(calls) : calls[i].kind = "ClusterServiceVersion"

\* The number of listed Subscriptions with a non-nil spec of the gitops package.
MatchCount ==
    Cardinality({ i \in 1..Len(subscriptionList) :
                    /\ subscriptionList[i].spec # <<>>
                    /\ subscriptionList[i].spec[1].package = "openshift-gitops-operator" })

\* The resolver has ended, by returning or by a run-time panic.
ResolverEnded == pc \in {"returned", "panicked"}

\* C1: when the entries the resolver returned hold a Fatal entry, the run ends
\* once they are reported: the ArgoCDs are never listed and no ArgoCD is
\* evaluated.
C1_FatalEndsRun ==
    (HasFatal(resEntries) \/ HasFatal(output.entries)) =>
        /\ pc \in {"returned", "done"}
        /\ ~ArgoCDsListed
        /\ argoCDList = <<>>
        /\ reports = <<>>

\* A run that ended on the report of a Fatal entry that is not the first entry.
C1_Witness ==
    /\ pc = "done"
    /\ Len(output.entries) = 2
    /\ output.entries[2].level = "Fatal"
    /\ output.summary = <<>>

\* C2: the resolver never raises: whatever the data source answers, it returns.
C2_NeverRaises == pc # "panicked"

\* C3: when no Subscription is obtained (the list call failed, or no listed record
\* has a non-nil spec of the gitops package), the resolver returns exactly one
\* entry, Warn for incomplete data and Error otherwise, and leaves the operator
\* version, the install namespace and the cluster-scoped namespaces unset.
C3_SubscriptionMissing ==
    (ResolverEnded /\ MatchCount = 0) =>
        /\ pc = "returned"
        /\ Len(resEntries) = 1
        /\ resEntries[1].level = (IF incomplete THEN "Warn" ELSE "Error")
        /\ resClusterInformation.operatorVersion = <<>>
        /\ resClusterInformation.operatorInstallNS = ""
        /\ resClusterInformation.clusterScopedNamespaces = <<>>
        /\ Len(calls) = 1

\* The resolver returned on a list of records none of which matches, with
\* incomplete data.
C3_Witness ==
    /\ pc = "returned"
    /\ Len(subscriptionList) = 2
    /\ MatchCount = 0
    /\ incomplete
    /\ Len(resEntries) = 1
    /\ resEntries[1].level = "Warn"

\* C4: when two or more listed Subscriptions match, the resolver returns exactly
\* one entry, a Fatal one, and a cluster information with every field unset,
\* whatever the incomplete-data flag and the number of matches.
C4_DuplicateSubscription ==
    (ResolverEnded /\ MatchCount >= 2) =>
        /\ pc = "returned"
        /\ Len(resEntries) = 1
        /\ resEntries[1].level = "Fatal"
        /\ resClusterInformation = clusterInformation
        /\ Len(calls) = 1

\* The resolver returned on two matching records, with incomplete data.
C4_Witness ==
    /\ pc = "returned"
    /\ MatchCount >= 2
    /\ incomplete
    /\ Len(resEntries) = 1
    /\ resEntries[1].level = "Fatal"

\* The Get of the ClusterServiceVersion failed: the resolver ended after the
\* request, without a ClusterServiceVersion.
GetFailed == ResolverEnded /\ ClusterServiceVersionRequested /\ csv = <<>>

\* C5: when the Get of the ClusterServiceVersion fails, the resolver returns with
\* a last entry that is Error for incomplete data and Fatal otherwise, and the
\* operator version stays unset.
C5_ClusterServiceVersionMissing ==
    GetFailed =>
        /\ pc = "returned"
        /\ Len(resEntries) >= 1
        /\ resEntries[Len(resEntries)].level = (IF incomplete THEN "Error" ELSE "Fatal")
        /\ resClusterInformation.operatorVersion = <<>>
        /\ ~NamespacesListed

\* The Get failed on complete data, for an operator of an unexpected namespace.
C5_Witness ==
    /\ GetFailed
    /\ ~incomplete
    /\ Len(resEntries) = 2
    /\ resEntries[1].level = "Warn"
    /\ resEntries[2].level = "Fatal"

\* The data source of the scenario: one matching Subscription in
\* openshift-gitops-operator with equal CSV names and no config, a
\* ClusterServiceVersion 1.19.0 that succeeded, and a Namespace list.
HappyPathScenario ==
    /\ MatchCount = 1
    /\ gitopsSubscription # <<>>
    /\ gitopsSubscription[1].namespace = "openshift-gitops-operator"
    /\ gitopsSubscription[1].currentCSV = gitopsSubscription[1].installedCSV
    /\ gitopsSubscription[1].config = <<>>
    /\ csv = <<[phase |-> "Succeeded", reason |-> "InstallSucceeded", version |-> "1.19.0"]>>
    /\ NamespacesListed
    /\ \A i \in 1..Len(resEntries) : resEntries[i].message # "unable to list Namespaces"

\* C6: on the data source of the scenario the resolver returns the operator
\* version 1.19.0, the install namespace openshift-gitops-operator, the
\* cluster-scoped namespaces <<openshift-gitops>> and no entry.
C6_HappyPath ==
    (ResolverEnded /\ HappyPathScenario) =>
        /\ pc = "returned"
        /\ resClusterInformation.operatorVersion = <<"1.19.0">>
        /\ resClusterInformation.operatorInstallNS = "openshift-gitops-operator"
        /\ resClusterInformation.clusterScopedNamespaces = <<"openshift-gitops">>
        /\ resEntries = <<>>

\* The resolver ended past the parsing of the Subscription's config.
PastClusterConfigNamespaces == ResolverEnded /\ ClusterServiceVersionRequested

\* C7: when the resolver ends past the parsing of the config and without a Fatal
\* entry, the cluster-scoped namespaces are the configured list or the default
\* <<openshift-gitops>>, and never empty.
C7_ClusterScopedNamespacesResolved ==
    (PastClusterConfigNamespaces /\ ~HasFatal(resEntries)) =>
        /\ resClusterInformation.clusterScopedNamespaces # <<>>
        /\ gitopsSubscription[1].config = <<>> =>
              resClusterInformation.clusterScopedNamespaces = <<"openshift-gitops">>

(***************************************************************************)
(* Properties of the rule engine (specification SpecRules).                *)
(***************************************************************************)
\* The nine image fields of argoCD: the field path and the image set there, ""
\* when the field or a parent of it is not set.
ImageLocations ==
    LET spec == argoCD.spec
    IN  << [path |-> ".spec.applicationSet.image",
            image |-> IF spec.applicationSet # <<>> THEN spec.applicationSet[1].image ELSE ""],
           [path |-> ".spec.sso.dex.image",
            image |-> IF spec.sso # <<>> /\ spec.sso[1].dex # <<>>
                      THEN spec.sso[1].dex[1].image ELSE ""],
           [path |-> ".spec.ha.redisProxyImage", image |-> spec.ha.redisProxyImage],
           [path |-> ".spec.argoCDAgent.agent.image",
            image |-> IF spec.argoCDAgent # <<>> /\ spec.argoCDAgent[1].agent # <<>>
                      THEN spec.argoCDAgent[1].agent[1].image ELSE ""],
           [path |-> ".spec.argoCDAgent.principal.image",
            image |-> IF spec.argoCDAgent # <<>> /\ spec.argoCDAgent[1].principal # <<>>
                      THEN spec.argoCDAgent[1].principal[1].image ELSE ""],
           [path |-> ".spec.notifications.image", image |-> spec.notifications.image],
           [path |-> ".spec.redis.image", image |-> spec.redis.image],
           [path |-> ".spec.repo.image", image |-> spec.repo.image],
           [path |-> ".spec.image", image |-> spec.image] >>

\* The issues of the first evaluation that name the field.
IssuesOf(field) == SelectSeq(issuesA[1], LAMBDA i : i.field = field)

Evaluated == pc \in {"evaluateSecond", "evaluated"}

\* The original statement of C8: an object with no custom image, no deprecated
\* field, the phase Available and no tech-preview setting has no issue.
NoCustomImage == \A k \in 1..Len(ImageLocations) : ImageLocations[k].image = ""

NoDeprecatedField ==
    /\ argoCD.spec.configManagementPlugins = ""
    /\ ~argoCD.spec.grafana.enabled
    /\ argoCD.spec.initialRepositories = ""
    /\ argoCD.spec.repositoryCredentials = ""
    /\ argoCD.spec.sso # <<>> => argoCD.spec.sso[1].keycloak = <<>>

\* The component is switched on by an explicit enabled: true.
SwitchedOn(component) == component.enabled = <<TRUE>>

\* The component is not switched off by an explicit enabled: false.
NotSwitchedOff(component) == component.enabled # <<FALSE>>

ApplicationSetOn ==
    argoCD.spec.applicationSet # <<>> /\ SwitchedOn(argoCD.spec.applicationSet[1])

NoTechPreviewSetting ==
    /\ ApplicationSetOn =>
          /\ argoCD.spec.applicationSet[1].sourceNamespaces = <<>>
          /\ ~containerArgsContainsParam(argoCD.spec.applicationSet[1].extraCommandArgs,
                                        "enable-progressive-syncs")
          /\ ~containerEnvVarContainsKeyValue(argoCD.spec.applicationSet[1].env,
                 "ARGOCD_APPLICATIONSET_CONTROLLER_ENABLE_PROGRESSIVE_SYNCS", "true")
    /\ NotSwitchedOff(argoCD.spec.controller) =>
          /\ argoCD.spec.controller.sharding.dynamicScalingEnabled # <<TRUE>>
          /\ \A alg \in {"round-robin", "consistent-hashing"} :
                /\ ~containerEnvVarContainsKeyValue(argoCD.spec.controller.env,
                       "ARGOCD_CONTROLLER_SHARDING_ALGORITHM", alg)
                /\ ~containerArgsContainsParamKV(argoCD.spec.controller.extraCommandArgs,
                       "sharding-method", alg)

C8_CleanObjectHasNoIssue ==
    (Evaluated /\ NoCustomImage /\ NoDeprecatedField /\ argoCD.status.phase = "Available"
       /\ NoTechPreviewSetting)
    => issuesA = << <<>> >>

\* The settings, besides those of the original statement, that a rule reports.
NoOverlappingSetting ==
    /\ \A key \in DOMAIN argoCD.spec.extraConfig :
          /\ (\E k \in 1..Len(directTranslations) : directTranslations[k].extraConfigField = key)
                => argoCD.spec.extraConfig[key] = ""
          /\ ~HasPrefix(key, "resource.customizations.health.")
          /\ ~HasPrefix(key, "resource.customizations.actions.")
          /\ ~HasPrefix(key, "resource.customizations.ignoreDifferences.")
    /\ ApplicationSetOn =>
          /\ ~containerEnvVarContainsName(argoCD.spec.applicationSet[1].env,
                 "ARGOCD_APPLICATIONSET_CONTROLLER_NAMESPACES")
          /\ ~containerArgsContainsParam(argoCD.spec.applicationSet[1].extraCommandArgs,
                 "applicationset-namespaces")
    /\ NotSwitchedOff(argoCD.spec.controller) =>
          /\ \A param \in {"status-processors", "operation-processors", "app-resync"} :
                ~containerArgsContainsParam(argoCD.spec.controller.extraCommandArgs, param)
          /\ \A name \in {"ARGOCD_APPLICATION_CONTROLLER_STATUS_PROCESSORS",
                          "ARGOCD_APPLICATION_CONTROLLER_OPERATION_PROCESSORS",
                          "ARGOCD_CONTROLLER_REPLICAS", "ARGOCD_RECONCILIATION_TIMEOUT"} :
                ~containerEnvVarContainsName(argoCD.spec.controller.env, name)
    /\ SwitchedOn(argoCD.spec.repo) =>
          ~containerEnvVarContainsName(argoCD.spec.repo.env, "ARGOCD_EXEC_TIMEOUT")
    /\ NotSwitchedOff(argoCD.spec.server) =>
          ~containerEnvVarContainsName(argoCD.spec.server.env, "ARGOCD_API_SERVER_REPLICAS")

NoIncorrectConfiguration ==
    /\ \A key \in DOMAIN argoCD.spec.extraConfig :
          key \notin unsupportedExtraConfigKeysFromArgoCDCMDParamsCM
    /\ \A key \in DOMAIN argoCD.spec.cmdParams : key \in supportedCmdParams
    /\ NotSwitchedOff(argoCD.spec.controller) =>
          /\ ~(/\ argoCD.spec.controller.sharding.enabled
               /\ argoCD.spec.controller.sharding.dynamicScalingEnabled # <<TRUE>>
               /\ argoCD.spec.controller.sharding.clustersPerShard # 0)
          /\ ~(/\ argoCD.spec.controller.processors.operation > 0
               /\ argoCD.spec.controller.resources # <<>>
               /\ argoCD.spec.controller.resources[1].limits # <<>>
               /\ MulInt32By35(argoCD.spec.controller.processors.operation)
                     > Memory(argoCD.spec.controller.resources[1].limits[1]) \div (1024 * 1024))

NoFailedReconciliation ==
    \A k \in 1..Len(argoCD.status.conditions) :
        argoCD.status.conditions[k].type = "Reconciled" =>
            argoCD.status.conditions[k].status = "True"

NoInsecureSetting ==
    /\ NotSwitchedOff(argoCD.spec.server) => ~argoCD.spec.server.insecure
    /\ argoCD.spec.argoCDAgent # <<>> =>
          /\ (/\ argoCD.spec.argoCDAgent[1].principal # <<>>
              /\ argoCD.spec.argoCDAgent[1].principal[1].tls # <<>>)
                => argoCD.spec.argoCDAgent[1].principal[1].tls[1].insecureGenerate # <<TRUE>>
          /\ (/\ argoCD.spec.argoCDAgent[1].agent # <<>>
              /\ argoCD.spec.argoCDAgent[1].agent[1].tls # <<>>)
                => argoCD.spec.argoCDAgent[1].agent[1].tls[1].insecure # <<TRUE>>

\* C8, amended: an object with no custom image, no deprecated field, the phase
\* Available, no tech-preview setting, and also no setting that overlaps a field
\* of the object, no incorrect configuration, no Reconciled condition other than
\* True and no insecure setting, has no issue.
C8_QuietObjectHasNoIssue ==
    (Evaluated /\ NoCustomImage /\ NoDeprecatedField /\ argoCD.status.phase = "Available"
       /\ NoTechPreviewSetting /\ NoOverlappingSetting /\ NoIncorrectConfiguration
       /\ NoFailedReconciliation /\ NoInsecureSetting)
    => issuesA = << <<>> >>

\* An evaluated object without issue that sets what no rule reports: an
\* ApplicationSet controller with namespaces, left off, and a Ready condition.
C8_Witness ==
    /\ pc = "evaluated"
    /\ argoCD.spec.applicationSet # <<>>
    /\ argoCD.spec.applicationSet[1].sourceNamespaces # <<>>
    /\ argoCD.status.conditions # <<>>
    /\ NoTechPreviewSetting /\ NoOverlappingSetting /\ NoIncorrectConfiguration
    /\ NoFailedReconciliation /\ NoInsecureSetting
    /\ issuesA = << <<>> >>

\* C9: for each of the nine image fields, an image set there gives exactly one
\* issue of that field path, of level Error and marked unsupported; an empty
\* field gives no issue of that path.
C9_CustomImages ==
    Evaluated =>
        \A k \in 1..Len(ImageLocations) :
            IF ImageLocations[k].image # ""
            THEN /\ Len(IssuesOf(ImageLocations[k].path)) = 1
                 /\ IssuesOf(ImageLocations[k].path)[1].level = "Error"
                 /\ IssuesOf(ImageLocations[k].path)[1].unsupported = TRUE
            ELSE IssuesOf(ImageLocations[k].path) = <<>>

\* An evaluated object with the images of dex and of the agent principal set, and
\* one issue for each.
C9_Witness ==
    /\ pc = "evaluated"
    /\ ImageLocations[2].image # ""
    /\ ImageLocations[5].image # ""
    /\ ImageLocations[9].image = ""
    /\ Len(issuesA[1]) = 2
    /\ issuesA[1][1].field = ".spec.sso.dex.image"
    /\ issuesA[1][2].field = ".spec.argoCDAgent.principal.image"

\* C10: two calls of checkIndividualArgoCDCR on the same object return the same
\* issues in the same order.
C10_SameIssuesTwice == pc = "evaluated" => issuesA = issuesB

(***************************************************************************)
(* Properties of the report of one object's issues (specification Spec).   *)
(***************************************************************************)
\* The number of places of the list that hold x.
Occurrences(list, x) == Cardinality({ i \in 1..Len(list) : list[i] = x })

\* C11: the reported issues of an object are a permutation of the issues the
\* rules returned, and an issue of a smaller field comes before every issue of
\* a greater field.
C11_ReportedIssuesSorted ==
    \A r \in 1..Len(reports) :
        /\ Len(reports[r].reported) = Len(reports[r].issues)
        /\ \A i \in 1..Len(reports[r].issues) :
              Occurrences(reports[r].reported, reports[r].issues[i])
                 = Occurrences(reports[r].issues, reports[r].issues[i])
        /\ \A i, j \in 1..Len(reports[r].reported) :
              StringLess(reports[r].reported[i].field, reports[r].reported[j].field) => i < j

\* An object is reported whose issues the rules returned in another order: the
\* first issue returned is not the first one reported.
C11_Witness ==
    \E r \in 1..Len(reports) :
        /\ Len(reports[r].issues) >= 3
        /\ reports[r].reported[1] # reports[r].issues[1]
        /\ StringLess(reports[r].issues[2].field, reports[r].issues[1].field)

\* The list with x put after the last issue whose field is not greater than x's.
InsertByField(sorted, x) ==
    LET before == { i \in 1..Len(sorted) : ~StringLess(x.field, sorted[i].field) }
        k == Cardinality(before)
    IN  SubSeq(sorted, 1, k) \o <<x>> \o SubSeq(sorted, k + 1, Len(sorted))

\* The issues sorted by field, issues of equal fields in the order of the list.
RECURSIVE StableSortByField(_)
StableSortByField(issues) ==
    IF issues = <<>> THEN <<>>
    ELSE InsertByField(StableSortByField(SubSeq(issues, 1, Len(issues) - 1)),
                       issues[Len(issues)])

ClustersPerShardIssues == IssuesOf(".spec.controller.sharding.clustersPerShard")

C13_ClustersPerShard ==
    Evaluated =>
        LET sharding == argoCD.spec.controller.sharding
        IN  /\ ( /\ NotSwitchedOff(argoCD.spec.controller)
                 /\ sharding.enabled = TRUE
                 /\ sharding.dynamicScalingEnabled \in {<<>>, <<FALSE>>}
                 /\ sharding.clustersPerShard # 0 )
                => /\ Len(ClustersPerShardIssues) = 1
                   /\ ClustersPerShardIssues[1].level = LogLevel_Error
            /\ ( \/ sharding.enabled = FALSE
                 \/ sharding.dynamicScalingEnabled = <<TRUE>>
                 \/ sharding.clustersPerShard = 0 )
                => ClustersPerShardIssues = <<>>

\* An evaluated object whose clustersPerShard is reported, with another issue besides.
C13_Witness ==
    /\ Evaluated
    /\ argoCD.spec.controller.sharding.enabled
    /\ argoCD.spec.controller.sharding.dynamicScalingEnabled = <<FALSE>>
    /\ argoCD.spec.controller.sharding.clustersPerShard # 0
    /\ Len(ClustersPerShardIssues) = 1
    /\ Len(issuesA[1]) > 1

\* C14: for an enabled controller with a positive operation-processor count N and
\* a memory limit of L bytes, one Warn issue names
\* .spec.controller.processors.operation exactly when the product N x 35 exceeds
\* L divided by 2^20, and its message carries N, the product N x 35 and the limit
\* in MiB. (For naturals N x 35 > m exactly when N > m \div 35; an estimate e is
\* the product N x 35 exactly when e \div 35 = N and e % 35 = 0.)
OperationProcessorsIssues == IssuesOf(".spec.controller.processors.operation")

C14_OperationProcessorsEstimate ==
    LET c == argoCD.spec.controller
    IN  ( /\ Evaluated
          /\ NotSwitchedOff(c)
          /\ c.processors.operation > 0
          /\ c.resources # <<>>
          /\ c.resources[1].limits # <<>>
          /\ "memory" \in DOMAIN c.resources[1].limits[1] )
        => LET N == c.processors.operation
               limitInMiB == c.resources[1].limits[1]["memory"] \div MiB
           IN  IF N > limitInMiB \div 35
               THEN /\ Len(OperationProcessorsIssues) = 1
                    /\ OperationProcessorsIssues[1].level = LogLevel_Warn
                    /\ OperationProcessorsIssues[1].message[2] = N
                    /\ OperationProcessorsIssues[1].message[3] \div 35 = N
                    /\ OperationProcessorsIssues[1].message[3] % 35 = 0
                    /\ OperationProcessorsIssues[1].message[4] = limitInMiB
               ELSE OperationProcessorsIssues = <<>>

\* C15: every issue that an evaluation of an object returns, whichever of the
\* seven rule functions appended it, has a non-empty field path.
C15_FieldPathNotEmpty ==
    /\ issuesA # <<>> => \A k \in 1..Len(issuesA[1]) : issuesA[1][k].field # ""
    /\ issuesB # <<>> => \A k \in 1..Len(issuesB[1]) : issuesB[1][k].field # ""

\* An evaluated object with an issue of a prefixed extraConfig key and an issue
\* of another rule function.
C15_Witness ==
    /\ Evaluated
    /\ IssuesOf(".spec.extraConfig[resource.customizations.health.*]") # <<>>
    /\ \E k \in 1..Len(issuesA[1]) : issuesA[1][k].level = LogLevel_Error

(***************************************************************************)
(* Properties of the order of the steps of a run (specification Spec).     *)
(***************************************************************************)
\* The entries are some, and each is a Warn or an Error entry.
WarnOrErrorOnly(entries) ==
    /\ entries # <<>>
    /\ \A i \in 1..Len(entries) : entries[i].level \in {LogLevel_Warn, LogLevel_Error}

\* The outcomes of checkIndividualArgoCDCR on the object with the cluster
\* information the resolver returned.
EvaluationsOf(object) ==
    { checkIndividualArgoCDCR(object, resClusterInformation, o1, o2) :
        o1 \in RangeOrders(object.spec.extraConfig), o2 \in RangeOrders(object.spec.cmdParams) }

\* C16: when the entries the resolver returned are Warn and Error entries only,
\* the run goes on after their report: the listing of the ArgoCDs is the next
\* step and is issued; when it succeeds with at least one object the evaluation
\* of the next object is the next step until all are evaluated, each with the
\* cluster information the resolver returned, and the run ends only with as many
\* reports as listed objects.
C16_RunContinuesWithoutFatal ==
    /\ (pc = "returned" /\ WarnOrErrorOnly(resEntries)) => ENABLED ReportEntries
    /\ (pc \in {"listArgoCDs", "evaluate", "done", "exit1"} /\ WarnOrErrorOnly(output.entries)) =>
          /\ pc = "listArgoCDs" => ENABLED ListArgoCDs
          /\ pc # "listArgoCDs" => ArgoCDsListed
          /\ pc = "exit1" => argoCDList = <<>> /\ reports = <<>>
          /\ pc = "evaluate" =>
                /\ idx \in 1..Len(argoCDList)
                /\ Len(reports) = idx - 1
          /\ pc = "done" =>
                /\ Len(argoCDList) >= 1
                /\ Len(reports) = Len(argoCDList)
          /\ \A i \in 1..Len(reports) : reports[i].issues \in EvaluationsOf(argoCDList[i])

\* A run that ended with two evaluated objects after the resolver returned an
\* Error entry and no version of the operator.
C16_Witness ==
    /\ pc = "done"
    /\ WarnOrErrorOnly(output.entries)
    /\ \E i \in 1..Len(output.entries) : output.entries[i].level = LogLevel_Error
    /\ resClusterInformation.operatorVersion = <<>>
    /\ Len(argoCDList) = 2
    /\ Len(reports) = 2

\* The kinds of the calls made to the data source, in the order they were made.
CallKinds == [i \in 1..Len(calls) |-> calls[i].kind]

ResolverCallKinds == <<"SubscriptionList", "ClusterServiceVersion", "NamespaceList">>

\* The resolver is at one of its steps.
InResolver ==
    pc \in {"listSubscriptions", "findSubscription", "checkCSV", "parseConfig", "getCSV",
            "listNamespaces"}

\* C17: the resolver's calls are made in the order list Subscriptions, get
\* ClusterServiceVersion, list Namespaces, each at most once and each only when
\* the steps before it passed; the ArgoCDs are listed, and objects evaluated, only
\* after the resolver has returned and its calls are over; the objects are
\* evaluated one at a time in the order of the listing.
C17_SequentialResolution ==
    /\ \E n \in 0..3 :
          \/ CallKinds = SubSeq(ResolverCallKinds, 1, n)
          \/ CallKinds = Append(SubSeq(ResolverCallKinds, 1, n), "ArgoCDList")
    /\ ClusterServiceVersionRequested =>
          /\ resClusterInformation.operatorInstallNS # ""
          /\ (InResolver \/ ResolverEnded) =>
                /\ MatchCount = 1
                /\ gitopsSubscription # <<>>
                /\ gitopsSubscription[1].installedCSV = gitopsSubscription[1].currentCSV
    /\ NamespacesListed =>
          /\ resClusterInformation.operatorVersion # <<>>
          /\ (InResolver \/ ResolverEnded) =>
                /\ csv # <<>>
                /\ csv[1].phase = "Succeeded"
                /\ csv[1].reason = "InstallSucceeded"
    /\ (InResolver \/ ResolverEnded \/ pc = "listArgoCDs") =>
          ~ArgoCDsListed /\ argoCDList = <<>> /\ reports = <<>>
    /\ ArgoCDsListed => CallKinds[Len(calls)] = "ArgoCDList"
    /\ Len(reports) <= Len(argoCDList)
    /\ pc = "evaluate" => Len(reports) = idx - 1
    /\ \A i \in 1..Len(reports) : reports[i].issues \in EvaluationsOf(argoCDList[i])

\* A run that made the four calls and evaluated two listed objects of which only
\* the second has issues.
C17_Witness ==
    /\ pc = "done"
    /\ Len(calls) = 4
    /\ Len(reports) = 2
    /\ reports[1].issues = <<>>
    /\ reports[2].issues # <<>>

(***************************************************************************)
(* Properties of the later steps of the resolver (specification Spec).     *)
(***************************************************************************)
\* The resolver has returned with the Subscription it selected, whose currentCSV
\* is not its installedCSV.
ReturnedWithInstallationInProgress ==
    /\ pc = "returned"
    /\ gitopsSubscription # <<>>
    /\ gitopsSubscription[1].currentCSV # gitopsSubscription[1].installedCSV

\* C18: when the currentCSV of the one gitops Subscription is not its
\* installedCSV, the resolver returns with an Error entry as its last entry: the
\* namespace of the installation is recorded, the cluster-scoped namespaces and
\* the version of the operator are not, and neither the ClusterServiceVersion
\* was requested nor the Namespaces were listed.
C18_InstallationInProgress ==
    /\ (pc \in {"parseConfig", "getCSV", "listNamespaces"} /\ gitopsSubscription # <<>>) =>
          gitopsSubscription[1].currentCSV = gitopsSubscription[1].installedCSV
    /\ ReturnedWithInstallationInProgress =>
          /\ resEntries # <<>>
          /\ resEntries[Len(resEntries)].level = LogLevel_Error
          /\ \A i \in 1..Len(resEntries) : resEntries[i].level # LogLevel_Fatal
          /\ resClusterInformation.operatorInstallNS = gitopsSubscription[1].namespace
          /\ resClusterInformation.clusterScopedNamespaces = <<>>
          /\ resClusterInformation.operatorVersion = <<>>
          /\ CallKinds = <<"SubscriptionList">>

\* The resolver returned on an installation in progress in a namespace of its
\* own, with the Warn entry of that namespace before the Error entry.
C18_Witness ==
    /\ ReturnedWithInstallationInProgress
    /\ Len(resEntries) = 2
    /\ resClusterInformation.operatorInstallNS = "custom-operators"

\* The ClusterServiceVersion the resolver got has the phase Succeeded and the
\* reason InstallSucceeded.
GotInstalledClusterServiceVersion ==
    csv # <<>> /\ csv[1].phase = "Succeeded" /\ csv[1].reason = "InstallSucceeded"

\* C19: the resolver records a version of the operator only from a
\* ClusterServiceVersion whose phase is Succeeded and whose reason is
\* InstallSucceeded, and then the version of that ClusterServiceVersion; when
\* either field differs the resolver returns with an Error entry as its last
\* entry, without a version and without listing the Namespaces.
C19_VersionOfInstalledOperator ==
    /\ resClusterInformation.operatorVersion # <<>> => ClusterServiceVersionRequested
    /\ (InResolver \/ ResolverEnded) =>
          /\ resClusterInformation.operatorVersion # <<>> =>
                /\ GotInstalledClusterServiceVersion
                /\ resClusterInformation.operatorVersion = <<csv[1].version>>
          /\ GotInstalledClusterServiceVersion =>
                resClusterInformation.operatorVersion = <<csv[1].version>>
          /\ (csv # <<>> /\ ~GotInstalledClusterServiceVersion) =>
                /\ pc = "returned"
                /\ resEntries # <<>>
                /\ resEntries[Len(resEntries)].level = LogLevel_Error
                /\ resClusterInformation.operatorVersion = <<>>
                /\ ~NamespacesListed

\* The resolver returned on a ClusterServiceVersion of phase Succeeded whose
\* reason is not InstallSucceeded.
C19_Witness ==
    /\ pc = "returned"
    /\ csv # <<>>
    /\ csv[1].phase = "Succeeded"
    /\ csv[1].reason # "InstallSucceeded"
    /\ resClusterInformation.operatorVersion = <<>>
    /\ resEntries[Len(resEntries)].level = LogLevel_Error

\* The Namespaces were listed and the listing failed: the step is over and the
\* first ownership map, made right after a listing that succeeds, was not made.
NamespaceListingFailed ==
    /\ NamespacesListed
    /\ pc # "listNamespaces"
    /\ resClusterInformation.namespaceWithManagedByLabel = <<>>

\* C20: when the listing of the Namespaces fails, the resolver returns with a
\* Fatal entry as its last entry, whether the data of the control plane is
\* incomplete or not, and the run ends with the report of the entries: the
\* ArgoCDs are not listed and no object is evaluated.
C20_NamespaceListingFailure ==
    NamespaceListingFailed =>
        /\ pc \in {"returned", "done"}
        /\ resEntries # <<>>
        /\ resEntries[Len(resEntries)].level = LogLevel_Fatal
        /\ pc = "done" => output.entries = resEntries /\ output.summary = <<>>
        /\ ~ArgoCDsListed
        /\ argoCDList = <<>>
        /\ reports = <<>>

\* A run over incomplete data that ended on the failed listing of the Namespaces.
C20_Witness ==
    /\ NamespaceListingFailed
    /\ incomplete
    /\ pc = "done"
    /\ resClusterInformation.operatorVersion # <<>>

(***************************************************************************)
(* Properties of the cluster-scoped namespaces (specification Spec).       *)
(***************************************************************************)
\* The places of the commas of the value, with a place before and one after it.
Borders(value) ==
    {0, Len(value) + 1} \cup { i \in 1..Len(value) : Char(value, i) = "," }

\* The piece of the value that starts after the border b: up to the next border,
\* without the spaces around it.
PieceAfter(value, b) ==
    LET next == CHOOSE c \in Borders(value) :
                    c > b /\ \A d \in Borders(value) : d > b => c <= d
        inner == { i \in (b + 1)..(next - 1) : Char(value, i) \notin WhiteSpace }
    IN  IF inner = {} THEN ""
        ELSE SubSeq(value, CHOOSE i \in inner : \A j \in inner : i <= j,
                           CHOOSE i \in inner : \A j \in inner : i >= j)

\* The borders that start a piece, in increasing order.
RECURSIVE Increasing(_)
Increasing(set) ==
    IF set = {} THEN <<>>
    ELSE LET least == CHOOSE i \in set : \A j \in set : i <= j
         IN  <<least>> \o Increasing(set \ {least})

\* The pieces of the value between its commas, in order, each without the spaces
\* around it, the empty ones left out.
TrimmedPieces(value) ==
    LET starts == Increasing(Borders(value) \ {Len(value) + 1})
        pieces == [k \in 1..Len(starts) |-> PieceAfter(value, starts[k])]
    IN  SelectSeq(pieces, LAMBDA piece : piece # "")

\* The places of the env list of the selected Subscription's config that hold an
\* ARGOCD_CLUSTER_CONFIG_NAMESPACES entry.
ClusterConfigNamespacesEntries ==
    { i \in 1..Len(gitopsSubscription[1].config[1].env) :
        gitopsSubscription[1].config[1].env[i].name = "ARGOCD_CLUSTER_CONFIG_NAMESPACES" }

\* The resolver is past the parsing of the config of the selected Subscription,
\* which has a config.
ConfigParsed ==
    /\ gitopsSubscription # <<>>
    /\ gitopsSubscription[1].config # <<>>
    /\ \/ pc \in {"getCSV", "listNamespaces"}
       \/ /\ ResolverEnded
          /\ gitopsSubscription[1].installedCSV = gitopsSubscription[1].currentCSV

\* C21: when the config of the selected Subscription holds exactly one
\* ARGOCD_CLUSTER_CONFIG_NAMESPACES entry, the cluster-scoped namespaces are the
\* pieces of its value between the commas, in order, each trimmed of the spaces
\* around it, the empty pieces dropped; when it holds more than one, the resolver
\* returns with a Fatal entry as its last entry and the ClusterServiceVersion is
\* not requested.
C21_ClusterConfigNamespaces ==
    ConfigParsed =>
        /\ Cardinality(ClusterConfigNamespacesEntries) = 1 =>
              \A i \in ClusterConfigNamespacesEntries :
                  resClusterInformation.clusterScopedNamespaces
                      = TrimmedPieces(gitopsSubscription[1].config[1].env[i].value)
        /\ Cardinality(ClusterConfigNamespacesEntries) > 1 =>
              /\ pc = "returned"
              /\ resEntries # <<>>
              /\ resEntries[Len(resEntries)].level = LogLevel_Fatal
              /\ ~ClusterServiceVersionRequested
              /\ resClusterInformation.operatorVersion = <<>>

\* The resolver is past a config whose one entry names two namespaces between
\* spaces and an empty piece.
C21_Witness ==
    /\ ConfigParsed
    /\ Cardinality(ClusterConfigNamespacesEntries) = 1
    /\ Len(gitopsSubscription[1].config[1].env) = 2
    /\ resClusterInformation.clusterScopedNamespaces = <<"x", "y">>

(***************************************************************************)
(* Properties of the rules, one by one (specification SpecRules).          *)
(***************************************************************************)
\* The issues each rule reports on argoCD when it is called on its own, put
\* together in the order deprecated fields, custom images, tech preview,
\* overlapping settings, incorrect configurations, status, best practices: one
\* list for each order in which the two maps can be ranged over.
RulesOnTheirOwn ==
    { checkArgoCDCRForDeprecatedFields(argoCD, <<>>)
        \o checkArgoCDCRForUnsupportedCustomImages(argoCD, <<>>)
        \o checkForTechPreviewOrExperimentalFeatures(argoCD, <<>>)
        \o checkForEnvVarsOrParamsWhichOverlapWithCRFields(argoCD, <<>>)
        \o checkForIncorrectConfigurations(argoCD, <<>>, o1, o2)
        \o checkArgoCDStatusField(argoCD, <<>>)
        \o checkForFailingBestPractices(argoCD, <<>>) :
        o1 \in RangeOrders(argoCD.spec.extraConfig), o2 \in RangeOrders(argoCD.spec.cmdParams) }

\* C22: checkIndividualArgoCDCR runs the seven rules in the order deprecated
\* fields, custom images, tech preview, overlapping settings, incorrect
\* configurations, status, best practices, each whatever the rules before it
\* reported: the issues returned are those each rule reports on its own, put
\* together in that order.
C22_SevenRulesInOrder ==
    /\ issuesA # <<>> => issuesA[1] \in RulesOnTheirOwn
    /\ issuesB # <<>> => issuesB[1] \in RulesOnTheirOwn

\* An evaluated object on which the custom-image rule and the best-practice rule
\* both report.
C22_Witness ==
    /\ Evaluated
    /\ checkArgoCDCRForUnsupportedCustomImages(argoCD, <<>>) # <<>>
    /\ checkForFailingBestPractices(argoCD, <<>>) # <<>>
    /\ Len(issuesA[1]) = 2

\* The three prefixes of extraConfig keys that stand for a field of the ArgoCD.
CustomizationPrefixes ==
    { "resource.customizations.health.", "resource.customizations.actions.",
      "resource.customizations.ignoreDifferences." }

\* The keys of argoCD's extraConfig that start with the prefix.
KeysWithPrefix(prefix) ==
    { key \in DOMAIN argoCD.spec.extraConfig :
        Len(key) >= Len(prefix) /\ SubSeq(key, 1, Len(prefix)) = prefix }

\* C23: for each of the three prefixes, an evaluation reports exactly one issue
\* at .spec.extraConfig[<prefix>*], a Warn, when at least one key of extraConfig
\* has the prefix, however many have it, and no such issue when none has it.
C23_OneIssuePerPrefix ==
    Evaluated =>
        \A prefix \in CustomizationPrefixes :
            LET found == IssuesOf(".spec.extraConfig[" \o prefix \o "*]")
            IN  IF KeysWithPrefix(prefix) # {}
                THEN Len(found) = 1 /\ found[1].level = LogLevel_Warn
                ELSE found = <<>>

\* An evaluated object with two keys of the health prefix and one issue in all.
C23_Witness ==
    /\ Evaluated
    /\ Cardinality(KeysWithPrefix("resource.customizations.health.")) = 2
    /\ Len(issuesA[1]) = 1
    /\ issuesA[1][1].field = ".spec.extraConfig[resource.customizations.health.*]"

\* The places of the table of direct translations that hold the key.
TranslationsOf(key) ==
    { k \in 1..Len(directTranslations) : directTranslations[k].extraConfigField = key }

\* C24: for every key set in extraConfig, whatever its value: a key of the table
\* of direct translations has exactly one issue at .spec.extraConfig[<key>], a
\* Warn that names the field of the ArgoCD to prefer; a key of the list of
\* argocd-cmd-params-cm keys has exactly one issue at .spec.extraConfig[<key>],
\* an Error.
C24_ExtraConfigKeys ==
    Evaluated =>
        \A key \in DOMAIN argoCD.spec.extraConfig :
            LET found == IssuesOf(".spec.extraConfig[" \o key \o "]")
            IN  /\ TranslationsOf(key) # {} =>
                      /\ Len(found) = 1
                      /\ found[1].level = LogLevel_Warn
                      /\ \E k \in TranslationsOf(key) :
                            found[1].message[2] = directTranslations[k].correspondingCRField
                /\ key \in unsupportedExtraConfigKeysFromArgoCDCMDParamsCM =>
                      /\ Len(found) = 1
                      /\ found[1].level = LogLevel_Error

\* C26: when the controller has no resource limits, or has limits without a
\* memory entry, an evaluation reports no issue at
\* .spec.controller.processors.operation, whatever the number of operation
\* processors.
C26_NoMemoryLimitNoIssue ==
    LET c == argoCD.spec.controller
    IN  ( /\ Evaluated
          /\ \/ c.resources = <<>>
             \/ c.resources[1].limits = <<>>
             \/ "memory" \notin DOMAIN c.resources[1].limits[1] )
        => OperationProcessorsIssues = <<>>

\* C29: for an enabled controller and each of the sharding algorithms
\* round-robin and consistent-hashing: when the env of the controller sets
\* ARGOCD_CONTROLLER_SHARDING_ALGORITHM to the algorithm, an evaluation reports a
\* Warn issue marked unsupported at
\* .spec.controller.env[ARGOCD_CONTROLLER_SHARDING_ALGORITHM]=<algorithm>,
\* whatever the arguments of the controller are; when the arguments hold
\* --sharding-method with the algorithm, it reports an issue for that algorithm,
\* whatever the env is.
C29_ShardingAlgorithmsIndependent ==
    (Evaluated /\ NotSwitchedOff(argoCD.spec.controller)) =>
        \A algorithm \in {"round-robin", "consistent-hashing"} :
            LET c == argoCD.spec.controller
                ofEnv == IssuesOf(".spec.controller.env[ARGOCD_CONTROLLER_SHARDING_ALGORITHM]="
                                    \o algorithm)
                ofArgs == IssuesOf(".spec.controller.extraCommandArgs: --sharding-method="
                                     \o algorithm)
            IN  /\ (\E i \in 1..Len(c.env) :
                        /\ c.env[i].name = "ARGOCD_CONTROLLER_SHARDING_ALGORITHM"
                        /\ c.env[i].value = algorithm)
                    => /\ ofEnv # <<>>
                       /\ ofEnv[1].level = LogLevel_Warn
                       /\ ofEnv[1].unsupported
                /\ containerArgsContainsParamKV(c.extraCommandArgs, "sharding-method", algorithm)
                    => ofArgs # <<>>

(***************************************************************************)
(* Properties of the entries of the resolver (specification Spec).         *)
(***************************************************************************)
\* The entry is the Warn entry of an installation into a namespace that is not
\* the default one.
UnexpectedNamespaceEntry(e) ==
    /\ e.level = LogLevel_Warn
    /\ e.message = "operator was installed into an unexpected namespace"

\* The entries are at most two; the first of two is the Warn entry of the
\* unexpected namespace; nothing follows a Fatal entry.
WellFormedEntries(entries) ==
    /\ Len(entries) <= 2
    /\ Len(entries) = 2 => UnexpectedNamespaceEntry(entries[1])
    /\ \A i \in 1..Len(entries) : entries[i].level = LogLevel_Fatal => i = Len(entries)

\* C27: the entries the resolver returns are at most two and are never
\* reordered: while the resolver is at its steps they are none or the one Warn
\* entry of an unexpected namespace; the step that stops the resolver adds at
\* most one entry, the last; a Fatal entry is the last entry and the only Fatal
\* one; and a step changes the entries only by adding one entry at the end, until
\* the report of the entries puts them out as they are.
C27_EntriesOfTheResolver ==
    /\ [](/\ WellFormedEntries(resEntries)
          /\ WellFormedEntries(output.entries)
          /\ InResolver =>
                \/ resEntries = <<>>
                \/ Len(resEntries) = 1 /\ UnexpectedNamespaceEntry(resEntries[1]))
    /\ [][ /\ pc # "returned" =>
               \/ resEntries' = resEntries
               \/ /\ Len(resEntries') = Len(resEntries) + 1
                  /\ SubSeq(resEntries', 1, Len(resEntries)) = resEntries
           /\ pc = "returned" => output'.entries = resEntries ]_vars

\* The resolver returned the Warn entry of an unexpected namespace and then a
\* Fatal entry.
C27_Witness ==
    /\ pc = "returned"
    /\ Len(resEntries) = 2
    /\ resEntries[2].level = LogLevel_Fatal

\* The ArgoCDs were listed and the listing failed or listed nothing.
NoArgoCDListed == ArgoCDsListed /\ argoCDList = <<>>

\* C30: when the entries of the resolver hold no Fatal entry and the listing of
\* the ArgoCDs fails or lists no object, the run ends with the failure status of
\* failWithError and no object was evaluated, whether the data of the control
\* plane is incomplete or not; nothing follows the end of the process.
C30_NoArgoCDEndsInFailure ==
    /\ [](/\ NoArgoCDListed =>
                /\ pc = "exit1"
                /\ ~HasFatal(output.entries)
                /\ reports = <<>>
          /\ pc = "exit1" => NoArgoCDListed)
    /\ [][pc # "exit1"]_vars

\* A run over incomplete data that ended in failure at the listing of the ArgoCDs,
\* after the resolver returned an Error entry.
C30_Witness ==
    /\ pc = "exit1"
    /\ incomplete
    /\ NoArgoCDListed
    /\ \E i \in 1..Len(output.entries) : output.entries[i].level = LogLevel_Error

(***************************************************************************)
(* Properties of two runs of the resolver on the same answers              *)
(* (specification SpecPair).                                               *)
(***************************************************************************)
\* The place of a level in the order Warn < Error < Fatal.
Severity(level) ==
    CASE level = LogLevel_Warn -> 1
      [] level = LogLevel_Error -> 2
      [] level = LogLevel_Fatal -> 3

\* Both runs have ended: the first on incomplete data, the second on complete.
BothRunsEnded == SecondRun /\ ResolverEnded

\* C28: of two runs of the resolver on data sources that give the same answers,
\* the first with incomplete data and the second with complete data, the entries
\* are as many, the level of each entry of the first run is lower than or equal
\* to the level of the entry at its place in the second, in the order
\* Warn < Error < Fatal, and the cluster information returned is the same.
C28_SeverityMonotone ==
    BothRunsEnded =>
        LET first == replay[1].first[1]
        IN  /\ Len(first.entries) = Len(resEntries)
            /\ \A i \in 1..Len(resEntries) :
                  Severity(first.entries[i].level) <= Severity(resEntries[i].level)
            /\ first.info = resClusterInformation
            /\ first.ended = pc

\* Both runs ended on a Subscription list without the gitops Subscription: the
\* first with a Warn entry, the second with an Error entry.
C28_Witness ==
    /\ BothRunsEnded
    /\ subscriptionList # <<>>
    /\ Len(resEntries) = 1
    /\ replay[1].first[1].entries[1].level = LogLevel_Warn
    /\ resEntries[1].level = LogLevel_Error

(***************************************************************************)
(* Properties of the matching of command arguments (specification          *)
(* SpecArgs).                                                              *)
(***************************************************************************)
\* The string without its single and double quote characters.
RECURSIVE WithoutQuotes(_)
WithoutQuotes(s) ==
    IF s = "" THEN ""
    ELSE IF SubSeq(s, 1, 1) \in {"'", "\""} THEN WithoutQuotes(Tail(s))
    ELSE SubSeq(s, 1, 1) \o WithoutQuotes(Tail(s))

\* The key without a leading "--".
WithoutDashes(key) ==
    IF Len(key) >= 2 /\ SubSeq(key, 1, 2) = "--" THEN SubSeq(key, 3, Len(key)) ELSE key

\* Some element is --key=value, or is --key with value as the next element, quote
\* characters aside.
MatchesKeyValue ==
    \E i \in 1..Len(cmdArgs) :
        \/ WithoutQuotes(cmdArgs[i]) = "--" \o WithoutDashes(cmdKey) \o "=" \o cmdValue
        \/ /\ WithoutQuotes(cmdArgs[i]) = "--" \o WithoutDashes(cmdKey)
           /\ i < Len(cmdArgs)
           /\ WithoutQuotes(cmdArgs[i + 1]) = cmdValue

\* Some element starts with --key=, or is --key with an element after it, quote
\* characters aside.
MatchesKey ==
    \E i \in 1..Len(cmdArgs) :
        LET arg == WithoutQuotes(cmdArgs[i])
            start == "--" \o WithoutDashes(cmdKey) \o "="
        IN  \/ Len(arg) >= Len(start) /\ SubSeq(arg, 1, Len(start)) = start
            \/ arg = "--" \o WithoutDashes(cmdKey) /\ i < Len(cmdArgs)

\* C25: containerArgsContainsParamKV(args, k, v) is true exactly when, quote
\* characters removed, some element is --k=v or some element is --k and the next
\* element is v; containerArgsContainsParam(args, k) is true exactly when, quote
\* characters removed, some element starts with --k= or is --k with an element
\* after it; a leading -- of the key given makes no difference.
C25_ArgumentMatching ==
    pc = "matched" =>
        /\ matches[1].keyValue = MatchesKeyValue
        /\ matches[1].key = MatchesKey

\* The key given with its leading --, matched by the two quoted arguments
\* '--sharding-method' and "legacy".
C25_Witness ==
    /\ pc = "matched"
    /\ cmdKey = "--sharding-method"
    /\ cmdValue = "legacy"
    /\ Len(cmdArgs) = 2
    /\ cmdArgs[1] # WithoutQuotes(cmdArgs[1])
    /\ cmdArgs[2] # WithoutQuotes(cmdArgs[2])
    /\ matches[1].keyValue
    /\ matches[1].key

====
